---- MODULE Spec2Model ----
(***************************************************************************)
(* Model of tarkov-map-tracker: the log event tailer (log_monitor.py),     *)
(* the metadata cache (tarkov_api.py), the screenshot filename parser      *)
(* (screenshot_parser.py) and the map renderer (map_renderer.py).          *)
(*                                                                         *)
(* A log file is a sequence of tokens.  A token stands for one phrase of   *)
(* text (it is one unit of file offset); NL is the line terminator.        *)
(***************************************************************************)
EXTENDS Integers, Sequences, FiniteSets, TLC

VARIABLES
    mode,           \* what log_path names: "file" or "dir"
    dirState,       \* the directory: "ok", "missing" or "unreadable"
    exists,         \* [Files -> BOOLEAN]: the path is a regular file
    mtime,          \* [Files -> Nat]: os.path.getmtime
    ino,            \* [Files -> Inodes]: the file object the path names
    content,        \* [Inodes -> Seq(Token)]: the bytes of each file object
    callbacks,      \* self.callbacks: [Kinds -> Seq(Listener)]
    nextId,         \* identity of the next registered callable
    last_position,  \* self.last_position
    current_map,    \* self.current_map (None before any map_loaded)
    pc,             \* where start_monitoring is
    handle,         \* the file object f opened by _tail_file (0: none)
    fpos,           \* f.tell()
    classified,     \* history: the lines handed to _process_line
    invoked,        \* history: the callback invocations, in order
    diag,           \* the kinds of diagnostics printed so far
    attach,         \* history: how the current run attached
    appends,        \* number of lines appended so far (bounded)
    rot,            \* history: the last replacement of the watched file
    fsChanges,      \* number of directory changes so far (bounded)
    stopRequested,  \* a KeyboardInterrupt was delivered to the tail loop
    polls,          \* parity of the number of time.sleep(0.1) calls
    cache,          \* self._cache: [CacheKeys -> entry or NoEntry]
    now,            \* time.time()
    remoteCalls,    \* history: number of requests.post calls
    nextObj,        \* identity of the next list object built
    lastGet,        \* history: the last get_* call and what it returned
    fname,          \* the filename handed to parse_filename, by its parts
    decoded,        \* history: what the last parse_filename call gave
    shots,          \* the screenshot directory, in the order glob lists it
    latest,         \* history: the last get_latest_screenshot() of a caller
    maps_config,    \* self.maps_config of the MapRenderer
    projected,      \* history: the last _calculate_svg_coords call
    rendered,       \* history: the last render_map call
    tasks,          \* data['tasks'] as the remote service answers it
    objectives,     \* history: the last get_quest_objectives_with_locations
    earlier,        \* history: what the parse_filename call before gave
    watch,          \* watch_for_updates: its thread, last_file, last_mtime
    delivered,      \* history: the positions handed to the watch callback
    inflight,       \* the line _process_line is working on, step by step
    observed,       \* history: the last get_current_map() of another thread
    callers,        \* the threads inside get_maps, each with its locals
    written,        \* history: the tuples built by _set_cache
    reads,          \* history: the tuples unpacked by _get_cached
    lists,          \* history: what each list built by get_quests holds
    answer          \* history: the last get_quests call and what it returned

fsVars   == <<mode, dirState, exists, mtime, ino, content, appends, rot,
              fsChanges>>
monVars  == <<callbacks, nextId, last_position, current_map, pc, handle, fpos,
              classified, invoked, diag, attach, stopRequested, polls>>
apiVars  == <<cache, now, remoteCalls, nextObj, lastGet>>
shotVars == <<fname, decoded, shots, latest, earlier, watch, delivered>>
renVars  == <<maps_config, projected, rendered>>
objVars  == <<tasks, objectives, lists, answer>>
concVars == <<inflight, observed, callers, written, reads>>
vars     == <<fsVars, monVars, apiVars, shotVars, renVars, objVars, concVars>>

-----------------------------------------------------------------------------
(* Bounds of the model *)

MaxAppends == 2
MaxListeners == 2
MaxTime == 3
MaxFsChanges == 1
MaxCalls == 3

-----------------------------------------------------------------------------
(* Text of log lines *)

None == "None"

\* PATTERNS, in dict order
Kinds == <<"map_loading", "map_loaded", "quest_completed", "quest_started",
           "raid_started", "raid_ended", "player_died", "extract_started">>

KindSet == {Kinds[i] : i \in DOMAIN Kinds}

\* the patterns with a capture group (\w+)
Capturing == {"map_loading", "map_loaded", "quest_completed", "quest_started"}

Tok(k, d) == [k |-> k, d |-> d]

NL == Tok("NL", "")

\* blanks, removed by str.strip() at the ends of a line
Blank == Tok("blank", "")

\* the phrase a pattern matches: "Map <d> loaded" is Tok("map_loaded", d)
Phrase(kind, d) == Tok(kind, d)

\* str.lower() on the identifiers of the model
Lower(s) ==
    CASE s = "Customs" -> "customs"
      [] s = "FACTORY" -> "factory"
      [] OTHER -> s

\* pattern.search(line): the index of the first phrase the pattern of `kind`
\* matches, 0 when there is none
Search(kind, line) ==
    LET hits == {i \in DOMAIN line : line[i].k = kind}
    IN  IF hits = {} THEN 0 ELSE CHOOSE i \in hits : \A j \in hits : i <= j

\* match.group(1) if match.groups() else None
GroupData(kind, line) ==
    IF kind \in Capturing THEN line[Search(kind, line)].d ELSE None

\* line.strip(): drop the terminator and the blanks at both ends
RECURSIVE LStrip(_)
LStrip(line) ==
    IF line # <<>> /\ Head(line).k \in {"NL", "blank"}
    THEN LStrip(Tail(line)) ELSE line

RECURSIVE RStrip(_)
RStrip(line) ==
    IF line # <<>> /\ line[Len(line)].k \in {"NL", "blank"}
    THEN RStrip(SubSeq(line, 1, Len(line) - 1)) ELSE line

Strip(line) == RStrip(LStrip(line))

-----------------------------------------------------------------------------
(* Python exceptions *)

\* `except Exception` catches Exception and its subclasses, not the
\* BaseException-only classes (KeyboardInterrupt)
ExceptException(exc) == exc \in {"Exception", "OSError", "TypeError"}

MutCatchesAll(exc) == TRUE

MutCatchesOSError(exc) == exc = "OSError"

\* the handler around each callback call in _process_line
CallbackHandlerCatches(exc) == ExceptException(exc)

\* the handler around the whole of _tail_file
TailHandlerCatches(exc) == ExceptException(exc)

-----------------------------------------------------------------------------
(* TarkovLogMonitor._process_line *)

Listener(id, raises) == [id |-> id, raises |-> raises]

\* one call of a callback: `exc` is what the call raised ("" for nothing),
\* `outcome` is "ok", "caught" (by the handler of line 135) or "escaped"
Invocation(kind, l, data, exc) ==
    [kind |-> kind, id |-> l.id, data |-> data, exc |-> exc,
     outcome |-> IF exc = "" THEN "ok"
                 ELSE IF CallbackHandlerCatches(exc) THEN "caught"
                 ELSE "escaped"]

MutDispatchFirstOnly(kind, data, cbs) ==
    IF cbs = <<>> THEN <<>>
    ELSE <<Invocation(kind, cbs[1], data,
                      IF cbs[1].raises THEN "Exception" ELSE "")>>

MutDispatchReversed(kind, data, cbs) ==
    [i \in DOMAIN cbs |->
        Invocation(kind, cbs[Len(cbs) + 1 - i], data,
                   IF cbs[Len(cbs) + 1 - i].raises THEN "Exception" ELSE "")]

\* `for callback in self.callbacks[event_type]`: every callback of the list
\* is called, in list order, a raising one inside try/except
DispatchKind(kind, data, cbs) ==
    [i \in DOMAIN cbs |->
        Invocation(kind, cbs[i], data,
                   IF cbs[i].raises THEN "Exception" ELSE "")]

\* `for event_type, pattern in self.PATTERNS.items()` from pattern index k
\* on: the calls of a line if every exception is caught
RECURSIVE DispatchFrom(_, _, _)
DispatchFrom(k, line, cbs) ==
    IF k > Len(Kinds) THEN <<>>
    ELSE LET kind == Kinds[k]
         IN  IF Search(kind, line) = 0 THEN DispatchFrom(k + 1, line, cbs)
             ELSE DispatchKind(kind, GroupData(kind, line), cbs[kind])
                      \o DispatchFrom(k + 1, line, cbs)

\* a KeyboardInterrupt delivered while the n-th call of the line runs
\* (n = 0: no interrupt)
Interrupted(invs, n) ==
    [i \in DOMAIN invs |->
        IF i = n
        THEN Invocation(invs[i].kind, [id |-> invs[i].id], invs[i].data,
                        "KeyboardInterrupt")
        ELSE invs[i]]

\* the calls up to and including the first one whose exception escapes
RECURSIVE UntilEscape(_)
UntilEscape(invs) ==
    IF invs = <<>> THEN <<>>
    ELSE IF Head(invs).outcome = "escaped" THEN <<Head(invs)>>
    ELSE <<Head(invs)>> \o UntilEscape(Tail(invs))

MutPlannedFirstMatch(raw, cbs) ==
    LET line == Strip(raw)
        hits == {k \in DOMAIN Kinds : Search(Kinds[k], line) # 0}
        k1   == CHOOSE k \in hits : \A j \in hits : k <= j
    IN  IF line = <<>> \/ hits = {} THEN <<>>
        ELSE DispatchKind(Kinds[k1], GroupData(Kinds[k1], line),
                          cbs[Kinds[k1]])

\* the calls _process_line would make for a raw line with no interrupt
PlannedCalls(raw, cbs) ==
    LET line == Strip(raw)
    IN  IF line = <<>> THEN <<>> ELSE DispatchFrom(1, line, cbs)

\* the calls _process_line makes for a raw line, interrupted in call n
ProcessLineCalls(raw, cbs, n) ==
    UntilEscape(Interrupted(PlannedCalls(raw, cbs), n))

\* the exception that leaves _process_line ("" for none)
EscapedExc(invs) ==
    IF invs # <<>> /\ invs[Len(invs)].outcome = "escaped"
    THEN invs[Len(invs)].exc ELSE ""

MutMapNoLower(raw, cur) ==
    LET line == Strip(raw)
    IN  IF line # <<>> /\ Search("map_loaded", line) # 0
           /\ GroupData("map_loaded", line) # ""
        THEN GroupData("map_loaded", line)
        ELSE cur

\* self.current_map after _process_line (set before the callbacks run)
ProcessLineMap(raw, cur) ==
    LET line == Strip(raw)
    IN  IF line # <<>> /\ Search("map_loaded", line) # 0
           /\ GroupData("map_loaded", line) # ""
        THEN Lower(GroupData("map_loaded", line))
        ELSE cur

-----------------------------------------------------------------------------
(* The file system *)

Files == {"a.log", "b.log"}

Inodes == 1..3

\* log_path in "file" mode names this file
LogPathFile == "a.log"

MaxOf(S) == CHOOSE x \in S : \A y \in S : y <= x

\* TarkovLogMonitor._get_log_file: the set of values it can return
GetLogFile ==
    IF mode = "file" /\ exists[LogPathFile] THEN {LogPathFile}
    ELSE IF mode = "file" \/ dirState # "ok" THEN {None}
    ELSE LET logs == {f \in Files : exists[f]}
         IN  IF logs = {} THEN {None}
             ELSE {f \in logs : mtime[f] = MaxOf({mtime[g] : g \in logs})}

\* f.readline() at offset p: through the next NL, or to the end of the file
RECURSIVE ReadLine(_, _)
ReadLine(c, p) ==
    IF p >= Len(c) THEN <<>>
    ELSE IF c[p + 1] = NL THEN <<NL>>
    ELSE <<c[p + 1]>> \o ReadLine(c, p + 1)

-----------------------------------------------------------------------------
(* Inputs of the model *)

\* the lines the game appends
Lines ==
    { <<Blank, Phrase("raid_ended", ""), Blank, NL>>,
      <<Phrase("map_loaded", "customs"), NL>>,
      <<Phrase("map_loaded", "Customs"), NL>>,
      <<Phrase("map_loaded", "Customs"), Phrase("raid_ended", ""), NL>>,
      <<Blank, NL>> }

\* what a log file holds before the monitor is started
InitContents ==
    { <<>>,
      <<Phrase("raid_ended", ""), NL, Phrase("map_loaded", "customs"), NL>> }

\* the event kinds callbacks are registered for in the model
RegKinds == {"map_loaded", "raid_ended"}

NoAttach == [ino |-> 0, len |-> 0, fresh |-> FALSE]

NoRot == [kind |-> "none", newIno |-> 0, preLen |-> 0]

NoEntry == [ts |-> -1, obj |-> 0, len |-> 0, refetch |-> FALSE]

NoName == [dir |-> <<>>]

NoDecode == [kind |-> "none"]

NoLatest == [kind |-> "none"]

NoProjection == [kind |-> "none"]

NoRender == [kind |-> "none"]

\* no call of get_quest_objectives_with_locations yet
NoObjectives == [map_name |-> "", ok |-> FALSE, rows |-> <<>>]

\* no call of get_quests yet
NoAnswer == [called |-> FALSE, map_name |-> "", result |-> <<>>]

\* watch_for_updates has not been called
NoWatch == [pc |-> "idle", thread |-> "", last_file |-> "", last_mtime |-> 0,
            stopRequested |-> FALSE, polls |-> 0]

\* _process_line is not running
NoLine == [raw |-> <<>>, start |-> 0, todo |-> <<>>, mapSet |-> FALSE,
           first |-> 0, began |-> [k \in KindSet |-> <<>>]]

\* get_current_map() has not been called from the other thread
NoRead == [called |-> FALSE, map |-> "None", dispatching |-> FALSE]

\* the threads that call the TarkovAPI object
Threads == {1, 2}

\* a thread outside the TarkovAPI methods
Outside == [pc |-> "outside", ts |-> -1, obj |-> 0]

NoGet ==
    [op |-> "", key |-> "", at |-> 0, fresh |-> FALSE, expired |-> FALSE,
     refetched |-> FALSE, cachedObj |-> 0, cachedLen |-> 0, ok |-> TRUE,
     result |-> "list", obj |-> 0, len |-> 0, calls |-> 0]

-----------------------------------------------------------------------------
(* Initial state: TarkovLogMonitor.__init__ on some file system *)

MonInitWith(cbs, n) ==
    /\ callbacks = cbs
    /\ nextId = n
    /\ last_position = 0
    /\ current_map = None
    /\ pc = "idle"
    /\ handle = 0
    /\ fpos = 0
    /\ classified = <<>>
    /\ invoked = <<>>
    /\ diag = {}
    /\ attach = NoAttach
    /\ stopRequested = FALSE
    /\ polls = 0
    /\ inflight = NoLine
    /\ observed = NoRead

MonInit == MonInitWith([k \in KindSet |-> <<>>], 1)

\* the monitor built by the module's command line: one callback per kind
MainCallbacks ==
    [k \in KindSet |->
        <<Listener(CHOOSE i \in DOMAIN Kinds : Kinds[i] = k, FALSE)>>]

MonInitMain == MonInitWith(MainCallbacks, Len(Kinds) + 1)

\* the file systems the monitor may be constructed on
FsAny ==
    /\ mode \in {"file", "dir"}
    /\ dirState \in {"ok", "missing", "unreadable"}
    /\ mode = "file" => dirState = "ok"
    /\ exists \in [Files -> BOOLEAN]
    /\ (mode = "file" \/ dirState # "ok") => ~exists["b.log"]
    /\ dirState # "ok" => ~exists["a.log"]
    /\ mtime \in [Files -> {1, 2}]
    /\ mtime["a.log"] = 1
    /\ ~exists["b.log"] => mtime["b.log"] = 1
    /\ ino = [f \in Files |-> IF f = "a.log" THEN 1 ELSE 2]
    /\ content \in [Inodes -> InitContents]
    /\ \A f \in Files : ~exists[f] => content[ino[f]] = <<>>
    /\ content[3] = <<>>
    /\ exists["b.log"] => content[2] # <<>>
    /\ appends = 0
    /\ rot = NoRot
    /\ fsChanges = 0

\* log_path names one existing log file
FsOneFile ==
    /\ FsAny
    /\ mode = "file"
    /\ exists["a.log"]

CacheKeys == {"maps", "quests_all", "quests_customs", "quests_Customs"}

\* TarkovAPI.__init__, in front of a service whose tasks are t
ApiInitOn(t) ==
    /\ cache = [k \in CacheKeys |-> NoEntry]
    /\ now = 0
    /\ remoteCalls = 0
    /\ nextObj = 1
    /\ lastGet = NoGet
    /\ tasks = t
    /\ objectives = NoObjectives
    /\ lists = <<>>
    /\ answer = NoAnswer
    /\ callers = [t1 \in Threads |-> Outside]
    /\ written = {}
    /\ reads = {}

ApiInit == ApiInitOn(<<>>)

\* nothing parsed, an empty screenshot directory
ParserInit ==
    /\ fname = NoName
    /\ decoded = NoDecode
    /\ shots = <<>>
    /\ latest = NoLatest
    /\ earlier = NoDecode
    /\ watch = NoWatch
    /\ delivered = <<>>

\* _load_maps_config found neither a cached maps.json nor the remote one
RendererInit ==
    /\ maps_config = <<>>
    /\ projected = NoProjection
    /\ rendered = NoRender

Init == FsOneFile /\ MonInit /\ ApiInit /\ ParserInit
        /\ RendererInit

-----------------------------------------------------------------------------
(* Operations of the monitor *)

\* on_map_loaded, on_raid_ended, ...: self.callbacks[kind].append(callback)
Register(kind, raises) ==
    /\ pc = "idle"
    /\ nextId <= MaxListeners
    /\ callbacks' = [callbacks EXCEPT ![kind] = Append(@, Listener(nextId, raises))]
    /\ nextId' = nextId + 1
    /\ UNCHANGED <<last_position, current_map, pc, handle, fpos, classified,
                   invoked, diag, attach, stopRequested, polls>>
    /\ UNCHANGED <<fsVars, apiVars, shotVars, renVars, objVars, concVars>>

\* the offset _tail_file seeks to on a file of length n
MutSeekStart(n) == 0

SeekEnd(n) == n

SeekTarget(n) == IF last_position > 0 THEN last_position ELSE SeekEnd(n)

\* what start_monitoring does with the result of _get_log_file
MutStartNoCheck(lf) == "tail"

StartChecks(lf) == IF lf = None THEN "raise" ELSE "tail"

\* start_monitoring up to the first readline: resolve, open, seek.
\* openOk = FALSE: open() raises (the resolved file is gone or unreadable)
Start ==
    /\ pc \in {"idle", "returned", "raised"}
    /\ \E lf \in GetLogFile, openOk \in BOOLEAN :
         IF StartChecks(lf) = "raise"
         THEN /\ openOk
              /\ pc' = "raised"
              /\ UNCHANGED <<handle, fpos, attach, diag>>
         ELSE IF lf = None \/ ~openOk
         THEN \* open(None) raises TypeError, open(path) OSError: both are
              \* caught by _tail_file, which prints and returns
              /\ TailHandlerCatches(IF lf = None THEN "TypeError" ELSE "OSError")
              /\ pc' = "returned"
              /\ diag' = diag \cup {"read_error"}
              /\ UNCHANGED <<handle, fpos, attach>>
         ELSE /\ pc' = "tailing"
              /\ handle' = ino[lf]
              /\ fpos' = SeekTarget(Len(content[ino[lf]]))
              /\ attach' = [ino |-> ino[lf], len |-> Len(content[ino[lf]]),
                            fresh |-> last_position = 0]
              /\ UNCHANGED diag
    /\ UNCHANGED <<callbacks, nextId, last_position, current_map, classified,
                   invoked, stopRequested, polls>>
    /\ UNCHANGED <<fsVars, apiVars, shotVars, renVars, objVars, concVars>>

MutTellCountsLines(p, raw) == p + 1

MutTellSkipsUnit(p, raw) == p + Len(raw) + 1

\* f.tell() after f.readline() returned raw from offset p
Tell(p, raw) == p + Len(raw)

\* one iteration of `while True` with a line to read: readline,
\* _process_line, self.last_position = f.tell().  n > 0: a KeyboardInterrupt
\* arrives while the n-th callback of the line runs
TailStep(n) ==
    /\ pc = "tailing"
    /\ fpos < Len(content[handle])
    /\ LET raw   == ReadLine(content[handle], fpos)
           calls == ProcessLineCalls(raw, callbacks, n)
           esc   == EscapedExc(calls)
       IN  /\ n <= Len(PlannedCalls(raw, callbacks))
           /\ classified' = Append(classified,
                  [ino |-> handle, start |-> fpos, text |-> raw,
                   fresh |-> attach.fresh, attLen |-> attach.len,
                   afterRot |-> rot.kind # "none",
                   map |-> ProcessLineMap(raw, current_map),
                   first |-> Len(invoked) + 1,
                   last |-> Len(invoked) + Len(calls),
                   done |-> esc = ""])
           /\ invoked' = invoked \o calls
           /\ current_map' = ProcessLineMap(raw, current_map)
           /\ stopRequested' = (stopRequested \/ n > 0)
           /\ IF esc = ""
              THEN /\ fpos' = Tell(fpos, raw)
                   /\ last_position' = Tell(fpos, raw)
                   /\ diag' = IF \E i \in DOMAIN calls : calls[i].outcome = "caught"
                              THEN diag \cup {"callback_error"} ELSE diag
                   /\ UNCHANGED <<pc, handle>>
              ELSE \* the exception leaves _process_line and the while loop
                   /\ handle' = 0
                   /\ UNCHANGED <<fpos, last_position>>
                   /\ IF TailHandlerCatches(esc)
                      THEN pc' = "returned" /\ diag' = diag \cup {"read_error"}
                      ELSE pc' = "interrupted" /\ UNCHANGED diag
    /\ UNCHANGED <<callbacks, nextId, attach, polls>>
    /\ UNCHANGED <<fsVars, apiVars, shotVars, renVars, objVars, concVars>>

\* readline raises (permission lost, file gone mid-read): `except Exception`
\* of _tail_file prints and _tail_file, then start_monitoring, return
ReadFail ==
    /\ pc = "tailing"
    /\ pc' = "returned"
    /\ handle' = 0
    /\ diag' = diag \cup {"read_error"}
    /\ UNCHANGED <<callbacks, nextId, last_position, current_map, fpos,
                   classified, invoked, attach, stopRequested, polls>>
    /\ UNCHANGED <<fsVars, apiVars, shotVars, renVars, objVars, concVars>>

\* the game writes one more line to its current log file (one with the
\* latest modification time), which becomes the single most recently
\* modified one (mtime keeps the order of the modification times)
AppendLine(f, line) ==
    /\ exists[f]
    /\ \A g \in Files : exists[g] => mtime[g] <= mtime[f]
    /\ pc # "idle"
    /\ appends < MaxAppends
    /\ appends' = appends + 1
    /\ content' = [content EXCEPT ![ino[f]] = @ \o line]
    /\ mtime' = [g \in Files |-> IF g = f THEN 2 ELSE 1]
    /\ UNCHANGED <<mode, dirState, exists, ino, rot, fsChanges>>
    /\ UNCHANGED <<monVars, apiVars, shotVars, renVars, objVars, concVars>>

\* one iteration of `while True` with nothing to read: readline returns ''
\* and the loop sleeps for the poll interval
TailIdle ==
    /\ pc = "tailing"
    /\ fpos >= Len(content[handle])
    /\ polls' = 1 - polls
    /\ UNCHANGED <<callbacks, nextId, last_position, current_map, pc, handle,
                   fpos, classified, invoked, diag, attach, stopRequested>>
    /\ UNCHANGED <<fsVars, apiVars, shotVars, renVars, objVars, concVars>>

\* registering callbacks, starting, and tailing one growing log file
Next ==
    \/ \E k \in RegKinds, r \in BOOLEAN : Register(k, r)
    \/ Start
    \/ TailStep(0)
    \/ \E f \in Files, l \in Lines : AppendLine(f, l)

Spec == Init /\ [][Next]_vars

\* the same with the idle polls, the while loop of _tail_file iterating for
\* ever: a line that can be read is eventually read
FairNext == Next \/ TailIdle

\* `line = f.readline(); if line:` with a line to read, seen on the cursor:
\* the steps of FairNext that satisfy it are the steps of TailStep(0)
ReadsLine ==
    /\ pc = "tailing"
    /\ fpos < Len(content[handle])
    /\ fpos' = Tell(fpos, ReadLine(content[handle], fpos))

FairSpec == Init /\ [][FairNext]_vars /\ WF_fpos(ReadsLine)

\* the writer flushes in the middle of a line: the pieces of one line reach
\* the file in separate appends, the first without the terminator
Pieces ==
    { <<Phrase("map_loaded", "Customs")>>,
      <<Phrase("raid_ended", ""), NL>>,
      <<NL>> }

PartialNext ==
    \/ \E k \in RegKinds, r \in BOOLEAN : Register(k, r)
    \/ Start
    \/ TailStep(0)
    \/ \E f \in Files, l \in Pieces : AppendLine(f, l)

PartialSpec == Init /\ [][PartialNext]_vars

-----------------------------------------------------------------------------
(* The tail loop under KeyboardInterrupt ("runs until interrupted") *)

\* SIGINT while the loop is in readline or time.sleep: KeyboardInterrupt is
\* raised inside the try of _tail_file
Interrupt ==
    /\ pc = "tailing"
    /\ stopRequested' = TRUE
    /\ handle' = 0
    /\ IF TailHandlerCatches("KeyboardInterrupt")
       THEN pc' = "returned" /\ diag' = diag \cup {"read_error"}
       ELSE pc' = "interrupted" /\ UNCHANGED diag
    /\ UNCHANGED <<callbacks, nextId, last_position, current_map, fpos,
                   classified, invoked, attach, polls>>
    /\ UNCHANGED <<fsVars, apiVars, shotVars, renVars, objVars, concVars>>

\* the module's command line on one log file, with Ctrl-C
StopInit == FsOneFile /\ MonInitMain /\ ApiInit /\ ParserInit
            /\ RendererInit

StopNext ==
    \/ Start
    \/ TailStep(0)
    \/ \E f \in Files, l \in Lines : AppendLine(f, l)
    \/ Interrupt
    \/ \E n \in 1..MaxListeners : TailStep(n)

StopSpec == StopInit /\ [][StopNext]_vars

-----------------------------------------------------------------------------
(* Changes of the log directory while the monitor runs *)

\* the file object a resolved path names
NewestInodes == {ino[f] : f \in GetLogFile \ {None}}

\* a log of 'Raid ended' lines longer than n tokens
RECURSIVE Fill(_)
Fill(n) ==
    IF n <= 0 THEN <<>>
    ELSE <<Phrase("raid_ended", ""), NL>> \o Fill(n - 2)

NewLog(old) == Fill(Len(old) + 1)

\* the game starts a new log file in the directory
CreateLog(f) ==
    /\ mode = "dir" /\ dirState = "ok"
    /\ ~exists[f]
    /\ handle # ino[f]
    /\ pc # "idle"
    /\ fsChanges < MaxFsChanges
    /\ fsChanges' = fsChanges + 1
    /\ exists' = [exists EXCEPT ![f] = TRUE]
    /\ content' = [content EXCEPT ![ino[f]] = <<>>]
    /\ mtime' = [g \in Files |-> IF g = f THEN 2 ELSE 1]
    /\ UNCHANGED <<mode, dirState, ino, appends, rot>>
    /\ UNCHANGED <<monVars, apiVars, shotVars, renVars, objVars, concVars>>

\* a log file is removed; a handle opened on it keeps its file object
DeleteLog(f) ==
    /\ exists[f]
    /\ pc # "idle"
    /\ fsChanges < MaxFsChanges
    /\ fsChanges' = fsChanges + 1
    /\ exists' = [exists EXCEPT ![f] = FALSE]
    /\ UNCHANGED <<mode, dirState, mtime, ino, content, appends, rot>>
    /\ UNCHANGED <<monVars, apiVars, shotVars, renVars, objVars, concVars>>

\* the watched file is replaced, while tailing, by a new larger file under
\* the same path (the old file object stays open in the tailer)
ReplaceByRename(f) ==
    /\ pc = "tailing" /\ exists[f] /\ ino[f] = handle
    /\ rot.kind = "none"
    /\ fsChanges < MaxFsChanges
    /\ fsChanges' = fsChanges + 1
    /\ ino' = [ino EXCEPT ![f] = 3]
    /\ content' = [content EXCEPT ![3] = NewLog(content[handle])]
    /\ mtime' = [g \in Files |-> IF g = f THEN 2 ELSE 1]
    /\ rot' = [kind |-> "rename", newIno |-> 3,
               preLen |-> Len(NewLog(content[handle]))]
    /\ UNCHANGED <<mode, dirState, exists, appends>>
    /\ UNCHANGED <<monVars, apiVars, shotVars, renVars, objVars, concVars>>

\* the watched file is rewritten in place, while tailing, with new larger
\* content (same file object: the tailer's offset now points into it)
ReplaceInPlace(f) ==
    /\ pc = "tailing" /\ exists[f] /\ ino[f] = handle
    /\ rot.kind = "none"
    /\ fsChanges < MaxFsChanges
    /\ fsChanges' = fsChanges + 1
    /\ content' = [content EXCEPT ![handle] = NewLog(content[handle])]
    /\ mtime' = [g \in Files |-> IF g = f THEN 2 ELSE 1]
    /\ rot' = [kind |-> "inplace", newIno |-> handle,
               preLen |-> Len(NewLog(content[handle]))]
    /\ UNCHANGED <<mode, dirState, exists, ino, appends>>
    /\ UNCHANGED <<monVars, apiVars, shotVars, renVars, objVars, concVars>>

\* the lines the game appends while the directory changes
RotLines ==
    { <<Blank, Phrase("raid_ended", ""), Blank, NL>>,
      <<Phrase("map_loaded", "customs"), NL>> }

\* the module's command line on any log directory, with read failures,
\* restarts by the caller and log files coming and going
ResolveInit == FsAny /\ MonInitMain /\ ApiInit /\ ParserInit
               /\ RendererInit

ResolveNext ==
    \/ Start
    \/ TailStep(0)
    \/ ReadFail
    \/ \E f \in Files, l \in RotLines : AppendLine(f, l)
    \/ \E f \in Files : CreateLog(f)
    \/ \E f \in Files : DeleteLog(f)

ResolveSpec == ResolveInit /\ [][ResolveNext]_vars

\* reads never fail and the while loop of _tail_file keeps iterating: a
\* line that can be read is eventually read, and an idle loop keeps polling
FairResolveNext ==
    \/ Start
    \/ TailStep(0)
    \/ TailIdle
    \/ \E f \in Files, l \in RotLines : AppendLine(f, l)
    \/ \E f \in Files : CreateLog(f)
    \/ \E f \in Files : DeleteLog(f)

FairResolveSpec ==
    /\ ResolveInit
    /\ [][FairResolveNext]_vars
    /\ WF_vars(TailStep(0))
    /\ WF_vars(TailIdle)

\* the watched log file is replaced while it is tailed
RotInit == FsOneFile /\ MonInitMain /\ ApiInit /\ ParserInit
           /\ RendererInit

RotNext ==
    \/ Start
    \/ TailStep(0)
    \/ ReadFail
    \/ \E f \in Files, l \in RotLines : AppendLine(f, l)
    \/ \E f \in Files : ReplaceByRename(f)
    \/ \E f \in Files : ReplaceInPlace(f)

RotSpec == RotInit /\ [][RotNext]_vars

-----------------------------------------------------------------------------
(* TarkovAPI: the cache in front of the remote service *)

\* self.cache_ttl, in ticks of the model clock
CacheTtl == 2

\* what _query hands back for one request.  ok = FALSE: any failure
\* (network error, HTTP error status, GraphQL errors, undecodable body),
\* _query returns None.  ok = TRUE: the 'data' object, of one of the shapes
\*   "list"       the requested field is a list of `all` entries, `customs`
\*                of them on map 'customs'
\*   "null_field" the requested field is null
\*   "null_name"  as "list", and one entry's map object has a null
\*                normalizedName
Answers ==
    { [ok |-> FALSE, shape |-> "list", all |-> 0, customs |-> 0],
      [ok |-> TRUE, shape |-> "list", all |-> 0, customs |-> 0],
      [ok |-> TRUE, shape |-> "list", all |-> 2, customs |-> 1],
      [ok |-> TRUE, shape |-> "null_field", all |-> 0, customs |-> 0],
      [ok |-> TRUE, shape |-> "null_name", all |-> 2, customs |-> 1] }

\* the entry is in self._cache and has not expired
IsFresh(key) == cache[key] # NoEntry /\ now - cache[key].ts < CacheTtl

\* the entry is in self._cache and has expired
IsExpired(key) == cache[key] # NoEntry /\ now - cache[key].ts >= CacheTtl

\* _get_cached: the cached value, or None (NoEntry)
GetCached(key) == IF IsFresh(key) THEN cache[key] ELSE NoEntry

\* `if cached:` None and the empty list are false
Truthy(v) == v # NoEntry /\ v.len > 0

\* what a get_* computes from a successful answer once the cache missed:
\* "list" (a list of n entries is cached and returned), "None" (None is
\* cached and returned) or "raised" (an exception leaves the call)
Outcome(kind, n) == [kind |-> kind, n |-> n]

\* get_maps: data['maps'] is stored and returned as it is
MapsOutcome(ans) ==
    IF ans.shape = "null_field" THEN Outcome("None", 0)
    ELSE Outcome("list", ans.all)

\* get_quests: data['tasks'], filtered through
\* q['map'].get('normalizedName', '').lower() when map_name is given
QuestsOutcome(m, ans) ==
    IF m = None
    THEN IF ans.shape = "null_field" THEN Outcome("None", 0)
         ELSE Outcome("list", ans.all)
    ELSE IF ans.shape = "list" THEN Outcome("list", ans.customs)
         ELSE Outcome("raised", 0)

\* the common shape of the get_* methods: look the key up, else query,
\* store and return
GetVia(op, key, ans, out) ==
    LET c    == GetCached(key)
        seen == [op |-> op, key |-> key, at |-> now,
                 fresh |-> IsFresh(key), expired |-> IsExpired(key),
                 refetched |-> cache[key].refetch,
                 cachedObj |-> cache[key].obj, cachedLen |-> cache[key].len]
    IN  IF Truthy(c)
        THEN /\ lastGet' = seen @@ [ok |-> TRUE, result |-> "list",
                                    obj |-> c.obj, len |-> c.len,
                                    calls |-> 0]
             /\ UNCHANGED <<cache, now, remoteCalls, nextObj>>
        ELSE /\ remoteCalls < MaxCalls
             /\ remoteCalls' = remoteCalls + 1
             /\ UNCHANGED now
             /\ IF ~ans.ok
                THEN \* return []
                     /\ lastGet' = seen @@ [ok |-> FALSE, result |-> "list",
                                            obj |-> nextObj, len |-> 0,
                                            calls |-> 1]
                     /\ nextObj' = nextObj + 1
                     /\ UNCHANGED cache
                ELSE IF out.kind = "raised"
                THEN /\ lastGet' = seen @@ [ok |-> TRUE, result |-> "raised",
                                            obj |-> 0, len |-> 0,
                                            calls |-> 1]
                     /\ UNCHANGED <<cache, nextObj>>
                ELSE IF out.kind = "None"
                THEN /\ lastGet' = seen @@ [ok |-> TRUE, result |-> "None",
                                            obj |-> 0, len |-> 0,
                                            calls |-> 1]
                     /\ cache' = [cache EXCEPT ![key] =
                                     [ts |-> now, obj |-> 0, len |-> 0,
                                      refetch |-> IsExpired(key)]]
                     /\ UNCHANGED nextObj
                ELSE /\ lastGet' = seen @@ [ok |-> TRUE, result |-> "list",
                                            obj |-> nextObj, len |-> out.n,
                                            calls |-> 1]
                     /\ cache' = [cache EXCEPT ![key] =
                                     [ts |-> now, obj |-> nextObj,
                                      len |-> out.n,
                                      refetch |-> IsExpired(key)]]
                     /\ nextObj' = nextObj + 1

\* get_maps()
GetMaps(ans) ==
    /\ GetVia("get_maps", "maps", ans, MapsOutcome(ans))
    /\ UNCHANGED <<fsVars, monVars, shotVars, renVars, objVars, concVars>>

\* get_quests(map_name), map_name None or 'customs'
GetQuests(m, ans) ==
    /\ GetVia("get_quests",
              IF m = None THEN "quests_all" ELSE "quests_customs", ans,
              QuestsOutcome(m, ans))
    /\ UNCHANGED <<fsVars, monVars, shotVars, renVars, objVars, concVars>>

\* get_quest_objectives_with_locations('customs'): get_quests('customs'),
\* then a new list built from the zones of the quests returned (the zones
\* of the answers modelled are well-formed)
GetObjectives(ans) ==
    /\ GetVia("get_quest_objectives_with_locations", "quests_customs", ans,
              QuestsOutcome("customs", ans))
    /\ UNCHANGED <<fsVars, monVars, shotVars, renVars, objVars, concVars>>

\* time passes
Tick ==
    /\ now < MaxTime
    /\ now' = now + 1
    /\ UNCHANGED <<cache, remoteCalls, nextObj, lastGet>>
    /\ UNCHANGED <<fsVars, monVars, shotVars, renVars, objVars, concVars>>

CacheNext ==
    \/ \E a \in Answers : GetMaps(a)
    \/ \E m \in {None, "customs"}, a \in Answers : GetQuests(m, a)
    \/ \E a \in Answers : GetObjectives(a)
    \/ Tick

CacheSpec == Init /\ [][CacheNext]_vars

-----------------------------------------------------------------------------
(* get_maps() called from several threads on one TarkovAPI object, in the  *)
(* steps another thread can fall between                                   *)

MutSetCacheTimestampOnly(old, ts, obj) == [old EXCEPT !.ts = ts]

\* self._cache[key] = (time.time(), value): the entry is replaced by a new
\* tuple in one store
SetCacheEntry(old, ts, obj) ==
    [ts |-> ts, obj |-> obj, len |-> 1, refetch |-> old # NoEntry]

\* the (timestamp, value) pair of an entry
PairOf(entry) == [ts |-> entry.ts, obj |-> entry.obj]

\* thread t calls get_maps()
CallGetMaps(t) ==
    /\ callers[t].pc = "outside"
    /\ remoteCalls < MaxCalls
    /\ callers' = [callers EXCEPT ![t].pc = "get_cached"]
    /\ UNCHANGED <<inflight, observed, written, reads>>
    /\ UNCHANGED <<fsVars, monVars, apiVars, shotVars, renVars, objVars>>

\* _get_cached: `timestamp, value = self._cache[key]` unpacks the tuple
\* the key holds; an unexpired non-empty value is returned by get_maps
ReadEntry(t) ==
    /\ callers[t].pc = "get_cached"
    /\ IF cache["maps"] = NoEntry
       THEN /\ callers' = [callers EXCEPT ![t].pc = "query"]
            /\ UNCHANGED reads
       ELSE /\ reads' = reads \cup {PairOf(cache["maps"])}
            /\ callers' = [callers EXCEPT ![t] =
                  IF Truthy(GetCached("maps"))
                  THEN [pc |-> "outside", ts |-> cache["maps"].ts,
                        obj |-> cache["maps"].obj]
                  ELSE [pc |-> "query", ts |-> cache["maps"].ts,
                        obj |-> cache["maps"].obj]]
    /\ UNCHANGED <<inflight, observed, written>>
    /\ UNCHANGED <<fsVars, monVars, apiVars, shotVars, renVars, objVars>>

\* _query returns: on failure get_maps returns []; otherwise data['maps']
\* is a new list that goes to _set_cache
QueryReturns(t, ok) ==
    /\ callers[t].pc = "query"
    /\ remoteCalls < MaxCalls
    /\ remoteCalls' = remoteCalls + 1
    /\ IF ok
       THEN /\ callers' = [callers EXCEPT ![t] =
                              [pc |-> "set_cache", ts |-> -1, obj |-> nextObj]]
            /\ nextObj' = nextObj + 1
       ELSE /\ callers' = [callers EXCEPT ![t] = Outside]
            /\ UNCHANGED nextObj
    /\ UNCHANGED <<cache, now, lastGet>>
    /\ UNCHANGED <<inflight, observed, written, reads>>
    /\ UNCHANGED <<fsVars, monVars, shotVars, renVars, objVars>>

\* _set_cache: the tuple (time.time(), value) is built
BuildTuple(t) ==
    /\ callers[t].pc = "set_cache"
    /\ callers' = [callers EXCEPT ![t].pc = "store", ![t].ts = now]
    /\ written' = written \cup {[ts |-> now, obj |-> callers[t].obj]}
    /\ UNCHANGED <<inflight, observed, reads>>
    /\ UNCHANGED <<fsVars, monVars, apiVars, shotVars, renVars, objVars>>

\* _set_cache: the tuple is stored under the key; get_maps returns
StoreTuple(t) ==
    /\ callers[t].pc = "store"
    /\ cache' = [cache EXCEPT !["maps"] =
                    SetCacheEntry(@, callers[t].ts, callers[t].obj)]
    /\ callers' = [callers EXCEPT ![t] = Outside]
    /\ UNCHANGED <<now, remoteCalls, nextObj, lastGet>>
    /\ UNCHANGED <<inflight, observed, written, reads>>
    /\ UNCHANGED <<fsVars, monVars, shotVars, renVars, objVars>>

\* time passes while the threads run
ThreadsTick ==
    /\ now < MaxTime
    /\ now' = now + 1
    /\ UNCHANGED <<cache, remoteCalls, nextObj, lastGet>>
    /\ UNCHANGED <<fsVars, monVars, shotVars, renVars, objVars, concVars>>

ThreadsNext ==
    \/ \E t \in Threads : CallGetMaps(t)
    \/ \E t \in Threads : ReadEntry(t)
    \/ \E t \in Threads, ok \in BOOLEAN : QueryReturns(t, ok)
    \/ \E t \in Threads : BuildTuple(t)
    \/ \E t \in Threads : StoreTuple(t)
    \/ ThreadsTick

ThreadsSpec == Init /\ [][ThreadsNext]_vars

-----------------------------------------------------------------------------
(* TarkovAPI.get_quest_objectives_with_locations over the tasks the remote *)
(* service answers.  A coordinate is one number standing for the x and y   *)
(* of a position; 0 stands for a null position.                            *)

Zone(m, pos) == [map |-> m, position |-> pos]

Location(m, positions) == [map |-> m, positions |-> positions]

Objective(id, zones, locs) ==
    [id |-> id, zones |-> zones, possibleLocations |-> locs]

Quest(id, m, objs) == [id |-> id, map |-> m, objectives |-> objs]

\* a quest of map 'customs': an objective with three coordinates on
\* 'customs' among entries of another map and a null position, and an
\* objective without entries
QuestOnCustoms ==
    Quest(1, "customs",
          <<Objective(11,
                      <<Zone("customs", 1), Zone("woods", 2),
                        Zone("customs", 0)>>,
                      <<Location("customs", <<3, 4>>),
                        Location("woods", <<5>>)>>),
            Objective(12, <<>>, <<>>)>>)

\* a quest that belongs to no single map (its map is null), with a zone on
\* 'customs'
QuestOnAnyMap ==
    Quest(2, None, <<Objective(21, <<Zone("customs", 6)>>, <<>>)>>)

\* a quest of map 'woods' with a possible location on 'customs'
QuestOnWoods ==
    Quest(3, "woods",
          <<Objective(31, <<Zone("woods", 7)>>,
                      <<Location("customs", <<8>>)>>)>>)

\* the answers of the service: the quests above, in any order
TaskLists ==
    LET Q == {QuestOnCustoms, QuestOnAnyMap, QuestOnWoods}
    IN  {t \in UNION {[1..n -> Q] : n \in 0..Cardinality(Q)} :
            \A i, j \in DOMAIN t : t[i] = t[j] => i = j}

\* the map names the caller passes
MapKeys == {"customs", "Customs"}

RECURSIVE Flatten(_)
\* the lists of ss, one after the other
Flatten(ss) == IF ss = <<>> THEN <<>> ELSE Head(ss) \o Flatten(Tail(ss))

\* the filter of get_quests(map_name): the quests whose own map is map_name
QuestsOn(quests, map_name) ==
    SelectSeq(quests,
              LAMBDA q : q.map # None /\ Lower(q.map) = Lower(map_name))

\* coords of one objective: the positions of its zones on map_name, then
\* the positions of its possible locations on map_name
Coords(obj, map_name) ==
    Flatten([i \in DOMAIN obj.zones |->
                IF Lower(obj.zones[i].map) = Lower(map_name)
                   /\ obj.zones[i].position # 0
                THEN <<obj.zones[i].position>> ELSE <<>>])
    \o Flatten([i \in DOMAIN obj.possibleLocations |->
                IF Lower(obj.possibleLocations[i].map) = Lower(map_name)
                THEN obj.possibleLocations[i].positions ELSE <<>>])

\* the rows appended for one objective of one quest
RowsOf(quest, obj, map_name) ==
    LET coords == Coords(obj, map_name)
    IN  [i \in DOMAIN coords |->
            [quest_id |-> quest.id, objective_id |-> obj.id,
             x |-> coords[i]]]

\* the loops of get_quest_objectives_with_locations over the quests that
\* get_quests(map_name) returned
ObjectivesWithLocations(quests, map_name) ==
    Flatten([q \in DOMAIN quests |->
                Flatten([o \in DOMAIN quests[q].objectives |->
                            RowsOf(quests[q], quests[q].objectives[o],
                                   map_name)])])

\* get_quest_objectives_with_locations(map_name); ok: the request of
\* get_quests, when it makes one, succeeds
GetObjectivesWithLocations(map_name, ok) ==
    LET key    == IF map_name = "customs" THEN "quests_customs"
                  ELSE "quests_Customs"
        quests == QuestsOn(tasks, map_name)
        got    == Truthy(GetCached(key)) \/ ok
    IN  /\ GetVia("get_quest_objectives_with_locations", key, [ok |-> ok],
                  Outcome("list", Len(quests)))
        /\ objectives' =
               [map_name |-> map_name, ok |-> got,
                rows |-> IF got
                         THEN ObjectivesWithLocations(quests, map_name)
                         ELSE <<>>]
        /\ UNCHANGED <<tasks, lists, answer>>
        /\ UNCHANGED <<fsVars, monVars, shotVars, renVars, concVars>>

\* time passes between the calls
ObjectivesTick ==
    /\ now < MaxTime
    /\ now' = now + 1
    /\ UNCHANGED <<cache, remoteCalls, nextObj, lastGet>>
    /\ UNCHANGED <<fsVars, monVars, shotVars, renVars, objVars, concVars>>

ObjectivesInit ==
    /\ FsOneFile /\ content[1] = <<>>
    /\ MonInit /\ ParserInit /\ RendererInit
    /\ \E t \in TaskLists : ApiInitOn(t)

ObjectivesNext ==
    \/ \E m \in MapKeys, ok \in BOOLEAN : GetObjectivesWithLocations(m, ok)
    \/ ObjectivesTick

ObjectivesSpec == ObjectivesInit /\ [][ObjectivesNext]_vars

\* the filters get_quests is called with (None: no filter)
MapFilters == {None, "customs", "Customs", "all"}

\* cache_key = f"quests_{map_name or 'all'}"
QuestsKey(map_name) ==
    CASE map_name = None -> "quests_all"
      [] map_name = "all" -> "quests_all"
      [] map_name = "customs" -> "quests_customs"
      [] map_name = "Customs" -> "quests_Customs"

\* quests = data['tasks'], filtered `if map_name:`
QuestsFor(quests, map_name) ==
    IF map_name = None THEN quests ELSE QuestsOn(quests, map_name)

\* get_quests(map_name) over the tasks of the service; ok: the request,
\* when one is made, succeeds
GetQuestsOn(map_name, ok) ==
    LET key    == QuestsKey(map_name)
        c      == GetCached(key)
        quests == QuestsFor(tasks, map_name)
        built  == IF ok THEN quests ELSE <<>>
    IN  /\ GetVia("get_quests", key, [ok |-> ok],
                  Outcome("list", Len(quests)))
        /\ lists' = IF Truthy(c) THEN lists ELSE Append(lists, built)
        /\ answer' = [called |-> TRUE, map_name |-> map_name,
                      result |-> IF Truthy(c) THEN lists[c.obj] ELSE built]
        /\ UNCHANGED <<tasks, objectives>>
        /\ UNCHANGED <<fsVars, monVars, shotVars, renVars, concVars>>

QuestsNext ==
    \/ \E m \in MapFilters, ok \in BOOLEAN : GetQuestsOn(m, ok)
    \/ ObjectivesTick

QuestsSpec == ObjectivesInit /\ [][QuestsNext]_vars

-----------------------------------------------------------------------------
(* ScreenshotParser.parse_filename: a filename is a sequence of characters *)

Digits == {"0", "1", "2", "3", "4", "5", "6", "7", "8", "9"}

DigitVal(c) ==
    CASE c = "0" -> 0 [] c = "1" -> 1 [] c = "2" -> 2 [] c = "3" -> 3
      [] c = "4" -> 4 [] c = "5" -> 5 [] c = "6" -> 6 [] c = "7" -> 7
      [] c = "8" -> 8 [] c = "9" -> 9

\* re.IGNORECASE on the letters of the pattern
FoldCase(c) ==
    CASE c = "D" -> "d" [] c = "E" -> "e" [] c = "G" -> "g"
      [] c = "P" -> "p" [] c = "N" -> "n" [] OTHER -> c

\* the character at index i, "" past the end
CharAt(s, i) == IF i \in 1..Len(s) THEN s[i] ELSE ""

\* Path(filename).name: the part after the last separator, trailing
\* separators dropped
RECURSIVE DropTrailingSep(_)
DropTrailingSep(s) ==
    IF s # <<>> /\ s[Len(s)] = "/" THEN DropTrailingSep(SubSeq(s, 1, Len(s) - 1))
    ELSE s

Basename(s) ==
    LET t    == DropTrailingSep(s)
        seps == {i \in 1..Len(t) : t[i] = "/"}
        from == IF seps = {} THEN 1
                ELSE (CHOOSE i \in seps : \A j \in seps : j <= i) + 1
    IN  SubSeq(t, from, Len(t))

\* \d* from index i: the index after the run of digits
RECURSIVE SpanDigits(_, _)
SpanDigits(s, i) ==
    IF CharAt(s, i) \in Digits THEN SpanDigits(s, i + 1) ELSE i

\* \d+\.?\d* from index i: the index after the match, 0 when there is none.
\* Every shorter alternative the regex engine can backtrack to ends inside
\* the same run of digits and dot, where the literal that follows in the
\* pattern (',' or '_') cannot match, so the greedy end decides.
MatchNumber(s, i) ==
    LET j == SpanDigits(s, i)
    IN  IF j = i THEN 0
        ELSE IF CharAt(s, j) = "." THEN SpanDigits(s, j + 1)
        ELSE j

\* a literal of the pattern at index i, compared ignoring case
MatchLiteral(s, i, lit) ==
    /\ i + Len(lit) - 1 <= Len(s)
    /\ \A k \in 1..Len(lit) : FoldCase(s[i + k - 1]) = lit[k]

\* $: the end of the string, or just before a final newline
AtEnd(s, i) == i = Len(s) + 1 \/ (i = Len(s) /\ s[i] = "\n")

DegPng == <<"d", "e", "g", ".", "p", "n", "g">>

\* POSITION_PATTERN tried at index i: the four groups, or NoMatch
NoMatch == [ok |-> FALSE, g1 |-> <<>>, g2 |-> <<>>, g3 |-> <<>>, g4 |-> <<>>]

MatchAt(s, i) ==
    LET e1 == MatchNumber(s, i + 1)
        e2 == MatchNumber(s, e1 + 1)
        e3 == MatchNumber(s, e2 + 1)
        e4 == SpanDigits(s, e3 + 1)
    IN  IF /\ CharAt(s, i) = "_"
           /\ e1 # 0 /\ CharAt(s, e1) = ","
           /\ e2 # 0 /\ CharAt(s, e2) = ","
           /\ e3 # 0 /\ CharAt(s, e3) = "_"
           /\ e4 > e3 + 1
           /\ MatchLiteral(s, e4, DegPng)
           /\ AtEnd(s, e4 + Len(DegPng))
        THEN [ok |-> TRUE, g1 |-> SubSeq(s, i + 1, e1 - 1),
              g2 |-> SubSeq(s, e1 + 1, e2 - 1),
              g3 |-> SubSeq(s, e2 + 1, e3 - 1),
              g4 |-> SubSeq(s, e3 + 1, e4 - 1)]
        ELSE NoMatch

\* an unanchored variant: the first place where the suffix pattern occurs,
\* whatever follows it
MutSearchUnanchored(s) ==
    LET at(i) ==
          LET e1 == MatchNumber(s, i + 1)
              e2 == MatchNumber(s, e1 + 1)
              e3 == MatchNumber(s, e2 + 1)
              e4 == SpanDigits(s, e3 + 1)
          IN  IF /\ CharAt(s, i) = "_"
                 /\ e1 # 0 /\ CharAt(s, e1) = ","
                 /\ e2 # 0 /\ CharAt(s, e2) = ","
                 /\ e3 # 0 /\ CharAt(s, e3) = "_"
                 /\ e4 > e3 + 1
                 /\ MatchLiteral(s, e4, DegPng)
              THEN [ok |-> TRUE, g1 |-> SubSeq(s, i + 1, e1 - 1),
                    g2 |-> SubSeq(s, e1 + 1, e2 - 1),
                    g3 |-> SubSeq(s, e2 + 1, e3 - 1),
                    g4 |-> SubSeq(s, e3 + 1, e4 - 1)]
              ELSE NoMatch
        hits == {i \in 1..Len(s) : at(i).ok}
    IN  IF hits = {} THEN NoMatch
        ELSE at(CHOOSE i \in hits : \A j \in hits : i <= j)

\* POSITION_PATTERN.search(basename): the leftmost index where it matches
PatternSearch(s) ==
    LET hits == {i \in 1..Len(s) : MatchAt(s, i).ok}
    IN  IF hits = {} THEN NoMatch
        ELSE MatchAt(s, CHOOSE i \in hits : \A j \in hits : i <= j)

\* int(text) of a run of digits
RECURSIVE IntOf(_)
IntOf(t) ==
    IF t = <<>> THEN 0
    ELSE 10 * IntOf(SubSeq(t, 1, Len(t) - 1)) + DigitVal(t[Len(t)])

\* a decimal value m / 10^e, in lowest terms of e
RECURSIVE Decimal(_, _)
Decimal(m, e) ==
    IF e > 0 /\ m % 10 = 0 THEN Decimal(m \div 10, e - 1)
    ELSE [m |-> m, e |-> e]

\* float(text) of digits with an optional '.' and fraction
ParseFloat(t) ==
    LET dots == {i \in 1..Len(t) : t[i] = "."}
        dot  == IF dots = {} THEN Len(t) + 1 ELSE CHOOSE i \in dots : TRUE
        int  == SubSeq(t, 1, dot - 1)
        frac == SubSeq(t, dot + 1, Len(t))
    IN  Decimal(IntOf(int \o frac), Len(frac))

\* the string a filename record stands for
Compose(f) ==
    f.dir \o f.stem \o <<"_">> \o f.x.text \o <<",">> \o f.y.text \o <<",">>
          \o f.z.text \o <<"_">> \o f.rot.text \o f.unit \o f.ext

\* the mtime os.path.getmtime reports for the screenshot
ShotMtime == 1

\* parse_filename(filename).  stat is what the file system does during the
\* call: the file is "absent", "present", or "vanishes" between
\* os.path.exists and os.path.getmtime (FileNotFoundError, which the
\* except (ValueError, IndexError) clause does not catch)
MutParseStatFirst(s, stat) ==
    LET basename == Basename(s)
        match    == PatternSearch(basename)
    IN  IF stat = "vanishes"
        THEN [kind |-> "raised", exc |-> "FileNotFoundError"]
        ELSE IF ~match.ok THEN [kind |-> "NotMatched"]
        ELSE [kind |-> "record",
              x |-> ParseFloat(match.g1), y |-> ParseFloat(match.g2),
              z |-> ParseFloat(match.g3), rotation |-> IntOf(match.g4),
              filename |-> basename,
              timestamp |-> IF stat = "present" THEN ShotMtime ELSE None]

ParseResult(s, stat) ==
    LET basename == Basename(s)
        match    == PatternSearch(basename)
    IN  IF ~match.ok THEN [kind |-> "NotMatched"]
        ELSE IF stat = "vanishes"
        THEN [kind |-> "raised", exc |-> "FileNotFoundError"]
        ELSE [kind |-> "record",
              x |-> ParseFloat(match.g1), y |-> ParseFloat(match.g2),
              z |-> ParseFloat(match.g3), rotation |-> IntOf(match.g4),
              filename |-> basename,
              timestamp |-> IF stat = "present" THEN ShotMtime ELSE None]

StatOutcomes == {"absent", "present", "vanishes"}

\* parse_filename(fname), at most twice
ParseFilename(stat) ==
    /\ earlier = NoDecode
    /\ decoded' = [stat |-> stat] @@ ParseResult(Compose(fname), stat)
    /\ earlier' = decoded
    /\ UNCHANGED <<fname, shots, latest, watch, delivered>>
    /\ UNCHANGED <<fsVars, monVars, apiVars, renVars, objVars, concVars>>

\* the parts filenames are made of.  A numeric field carries its text and,
\* when the text is a decimal number, the value m / 10^e it denotes
Field(text, ok, m, e) == [text |-> text, ok |-> ok, m |-> m, e |-> e]

XFields ==
    { Field(<<"1", "2", ".", "5">>, TRUE, 125, 1),
      Field(<<"7">>, TRUE, 7, 0),
      Field(<<"3", ".">>, TRUE, 3, 0),
      Field(<<"0", ".", "5", "0">>, TRUE, 5, 1),
      Field(<<>>, FALSE, 0, 0),
      Field(<<".", "5">>, FALSE, 0, 0) }

YFields ==
    { Field(<<"8", "9", ".", "0", "1">>, TRUE, 8901, 2),
      Field(<<"0">>, TRUE, 0, 0),
      Field(<<>>, FALSE, 0, 0) }

ZFields ==
    { Field(<<"2", ".", "3", "4">>, TRUE, 234, 2),
      Field(<<"1", "0">>, TRUE, 10, 0),
      Field(<<>>, FALSE, 0, 0) }

RotFields ==
    { Field(<<"4", "5">>, TRUE, 45, 0),
      Field(<<"0", "9", "0">>, TRUE, 90, 0),
      Field(<<"7", "2", "0">>, TRUE, 720, 0),
      Field(<<>>, FALSE, 0, 0),
      Field(<<"4", ".", "5">>, FALSE, 0, 0) }

Units == { <<"d", "e", "g">>, <<"D", "e", "g">>, <<>> }

Exts == { <<".", "p", "n", "g">>, <<".", "P", "N", "G">>,
          <<".", "j", "p", "g">> }

\* directory prefixes, one of them named like a screenshot
DirPrefixes ==
    { <<>>,
      <<"s", "/">>,
      <<"_", "1", ",", "1", ",", "1", "_", "1", "d", "e", "g", ".", "p",
        "n", "g", "/">> }

\* what precedes the suffix in the basename, with numeric-looking text and
\* with a whole earlier suffix
Stems ==
    { <<"a">>,
      <<"_", "6", ",", "6">>,
      <<"_", "6", ",", "6", ",", "6", "_", "6", "d", "e", "g", ".", "p",
        "n", "g">> }

Filenames ==
    [dir : DirPrefixes, stem : Stems, x : XFields, y : YFields, z : ZFields,
     rot : RotFields, unit : Units, ext : Exts]

\* the basename ends with _<X>,<Y>,<Z>_<ROT>deg.png
WellFormed(f) ==
    /\ f.x.ok /\ f.y.ok /\ f.z.ok /\ f.rot.ok
    /\ f.unit # <<>>
    /\ f.ext # <<".", "j", "p", "g">>

\* one of the four numeric groups or the unit is missing
LacksPart(f) ==
    \/ f.x.text = <<>> \/ f.y.text = <<>> \/ f.z.text = <<>>
    \/ f.rot.text = <<>>
    \/ f.unit = <<>>

DecodeInit ==
    /\ FsOneFile /\ content[1] = <<>>
    /\ MonInit /\ ApiInit /\ RendererInit
    /\ fname \in Filenames
    /\ decoded = NoDecode
    /\ shots = <<>>
    /\ latest = NoLatest
    /\ earlier = NoDecode
    /\ watch = NoWatch
    /\ delivered = <<>>

DecodeNext == \E stat \in StatOutcomes : ParseFilename(stat)

DecodeSpec == DecodeInit /\ [][DecodeNext]_vars

-----------------------------------------------------------------------------
(* ScreenshotParser.get_latest_screenshot over the screenshot directory *)

MaxShots == 3

MaxShotMtime == 3

\* the *.png paths of the directory, with their lexicographic rank
ShotNames == {"a.png", "b.png", "c.png"}

PathRank(n) == CASE n = "a.png" -> 1 [] n = "b.png" -> 2 [] n = "c.png" -> 3

Shot(name, mt) == [name |-> name, mtime |-> mt]

\* s with x put at index i
InsertAt(s, i, x) == SubSeq(s, 1, i - 1) \o <<x>> \o SubSeq(s, i, Len(s))

RemoveAt(s, i) == SubSeq(s, 1, i - 1) \o SubSeq(s, i + 1, Len(s))

\* a screenshot is written; the file system lists it anywhere
AddShot(name, mt, i) ==
    /\ Len(shots) < MaxShots
    /\ \A k \in DOMAIN shots : shots[k].name # name
    /\ i \in 1..Len(shots) + 1
    /\ shots' = InsertAt(shots, i, Shot(name, mt))
    /\ UNCHANGED <<fname, decoded, latest, earlier, watch, delivered>>
    /\ UNCHANGED <<fsVars, monVars, apiVars, renVars, objVars, concVars>>

\* a screenshot is deleted
DeleteShot(i) ==
    /\ i \in DOMAIN shots
    /\ shots' = RemoveAt(shots, i)
    /\ UNCHANGED <<fname, decoded, latest, earlier, watch, delivered>>
    /\ UNCHANGED <<fsVars, monVars, apiVars, renVars, objVars, concVars>>

\* max(screenshots, key=os.path.getmtime): the first of the greatest, in
\* the order of the list
RECURSIVE FirstMax(_)
FirstMax(s) ==
    IF Len(s) = 1 THEN s[1]
    ELSE LET m == FirstMax(SubSeq(s, 1, Len(s) - 1))
         IN  IF s[Len(s)].mtime > m.mtime THEN s[Len(s)] ELSE m

\* get_latest_screenshot().  dirOk: the directory can be listed (glob gives
\* [] when it cannot); gone: a listed file is deleted before its getmtime
\* (OSError, caught: None)
MutLatestFirstListed(listing, gone) ==
    IF listing = <<>> THEN [kind |-> "NotFound"]
    ELSE IF gone THEN [kind |-> "NotFound"]
    ELSE [kind |-> "path", name |-> listing[1].name,
          mtime |-> listing[1].mtime]

LatestResult(listing, gone) ==
    IF listing = <<>> THEN [kind |-> "NotFound"]
    ELSE IF gone THEN [kind |-> "NotFound"]
    ELSE [kind |-> "path", name |-> FirstMax(listing).name,
          mtime |-> FirstMax(listing).mtime]

GetLatestScreenshot(dirOk, gone) ==
    LET listing == IF dirOk THEN shots ELSE <<>>
    IN  /\ gone => listing # <<>>
        /\ latest' = [dirOk |-> dirOk, gone |-> gone, listing |-> listing]
                        @@ LatestResult(listing, gone)
        /\ UNCHANGED <<fname, decoded, shots, earlier, watch, delivered>>
        /\ UNCHANGED <<fsVars, monVars, apiVars, renVars, objVars, concVars>>

LatestInit ==
    /\ FsOneFile /\ content[1] = <<>>
    /\ MonInit /\ ApiInit /\ ParserInit /\ RendererInit

LatestNext ==
    \/ \E n \in ShotNames, mt \in 1..MaxShotMtime, i \in 1..MaxShots :
          AddShot(n, mt, i)
    \/ \E i \in 1..MaxShots : DeleteShot(i)
    \/ \E dirOk \in BOOLEAN, gone \in BOOLEAN : GetLatestScreenshot(dirOk, gone)

LatestSpec == LatestInit /\ [][LatestNext]_vars

-----------------------------------------------------------------------------
(* ScreenshotParser.watch_for_updates *)

\* the callback calls of the histories with a callback that may raise
MaxDelivered == 2

\* the threads watch_for_updates can be called on
WatchThreads == {"main", "background"}

\* the screenshots whose names carry a position ('c.png' stands for a
\* screenshot whose name does not match POSITION_PATTERN)
HasPosition(name) == name \in {"a.png", "b.png"}

\* watch_for_updates(callback, interval) is called on thread th
WatchStart(th) ==
    /\ watch.pc = "idle"
    /\ watch' = [watch EXCEPT !.pc = "polling", !.thread = th]
    /\ UNCHANGED <<fname, decoded, shots, latest, earlier, delivered>>
    /\ UNCHANGED <<fsVars, monVars, apiVars, renVars, objVars, concVars>>

\* what one pass of the loop body leaves in last_file and last_mtime and
\* whether it calls the callback.  vanished: the latest file is deleted
\* before os.path.getmtime(latest) (OSError, caught by `except Exception`).
\* raises: callback(position) raises an Exception, caught by the same
\* handler, and the two assignments after the call are not reached
WatchPass(r, vanished, raises, last_file, last_mtime) ==
    IF r.kind = "path" /\ r.name # last_file /\ ~vanished
       /\ r.mtime > last_mtime
    THEN IF HasPosition(r.name) /\ raises
         THEN [last_file |-> last_file, last_mtime |-> last_mtime,
               calls |-> <<[filename |-> r.name, timestamp |-> r.mtime]>>]
         ELSE [last_file |-> r.name, last_mtime |-> r.mtime,
               calls |-> IF HasPosition(r.name)
                         THEN <<[filename |-> r.name, timestamp |-> r.mtime]>>
                         ELSE <<>>]
    ELSE [last_file |-> last_file, last_mtime |-> last_mtime, calls |-> <<>>]

\* one iteration of `while True`: get_latest_screenshot, the comparison
\* with last_file and last_mtime, parse_filename, callback, time.sleep
WatchPoll(dirOk, gone, vanished, raises) ==
    LET listing == IF dirOk THEN shots ELSE <<>>
        r       == LatestResult(listing, gone)
        pass    == WatchPass(r, vanished, raises, watch.last_file,
                             watch.last_mtime)
    IN  /\ watch.pc = "polling"
        /\ gone => listing # <<>>
        /\ vanished => r.kind = "path"
        /\ raises => pass.calls # <<>>
        /\ delivered' = delivered \o pass.calls
        /\ watch' = [watch EXCEPT !.last_file = pass.last_file,
                                   !.last_mtime = pass.last_mtime,
                                   !.polls = 1 - @]
        /\ UNCHANGED <<fname, decoded, shots, latest, earlier>>
        /\ UNCHANGED <<fsVars, monVars, apiVars, renVars, objVars, concVars>>

\* the loop is asked to stop.  The only request the code can receive is a
\* KeyboardInterrupt, which Python raises in the main thread: it leaves
\* watch_for_updates there (`except Exception` does not catch it) and
\* never reaches a loop that runs on another thread
WatchInterrupt ==
    /\ watch.pc = "polling"
    /\ ~watch.stopRequested
    /\ watch' = [watch EXCEPT
                    !.stopRequested = TRUE,
                    !.pc = IF watch.thread = "main" THEN "interrupted"
                           ELSE @]
    /\ UNCHANGED <<fname, decoded, shots, latest, earlier, delivered>>
    /\ UNCHANGED <<fsVars, monVars, apiVars, renVars, objVars, concVars>>

WatchNext ==
    \/ \E n \in ShotNames, mt \in 1..MaxShotMtime, i \in 1..MaxShots :
          AddShot(n, mt, i)
    \/ \E i \in 1..MaxShots : DeleteShot(i)
    \/ \E th \in WatchThreads : WatchStart(th)
    \/ \E dirOk \in BOOLEAN, gone \in BOOLEAN, vanished \in BOOLEAN :
          WatchPoll(dirOk, gone, vanished, FALSE)
    \/ WatchInterrupt

WatchSpec == LatestInit /\ [][WatchNext]_vars

\* one iteration with a callback that may raise, while the history of the
\* calls has room
RaisingPoll(dirOk, gone, vanished, raises) ==
    /\ Len(delivered) < MaxDelivered
    /\ WatchPoll(dirOk, gone, vanished, raises)

\* the loop on a background thread with a callback that may raise
RaisingNext ==
    \/ \E n \in ShotNames, mt \in 1..MaxShotMtime, i \in 1..MaxShots :
          AddShot(n, mt, i)
    \/ \E i \in 1..MaxShots : DeleteShot(i)
    \/ WatchStart("background")
    \/ \E dirOk \in BOOLEAN, gone \in BOOLEAN, vanished \in BOOLEAN,
          raises \in BOOLEAN :
          RaisingPoll(dirOk, gone, vanished, raises)

RaisingSpec == LatestInit /\ [][RaisingNext]_vars

\* the loop on a background thread, iterating for ever: `while True` with
\* time.sleep(interval) polls again and again
FairWatchNext ==
    \/ \E n \in ShotNames, mt \in 1..MaxShotMtime, i \in 1..MaxShots :
          AddShot(n, mt, i)
    \/ \E i \in 1..MaxShots : DeleteShot(i)
    \/ WatchStart("background")
    \/ \E dirOk \in BOOLEAN, gone \in BOOLEAN, vanished \in BOOLEAN :
          WatchPoll(dirOk, gone, vanished, FALSE)

FairWatchSpec ==
    LatestInit /\ [][FairWatchNext]_vars
        /\ WF_vars(WatchPoll(TRUE, FALSE, FALSE, FALSE))

\* the listings that hold the same files in another order
Reorderings(s) ==
    { [i \in DOMAIN s |-> s[p[i]]] :
        p \in {q \in [DOMAIN s -> DOMAIN s] :
                  \A i, j \in DOMAIN s : q[i] = q[j] => i = j} }

\* the files of a listing with the greatest modification time
Newest(s) ==
    {i \in DOMAIN s : \A j \in DOMAIN s : s[j].mtime <= s[i].mtime}

DistinctMtimes(s) ==
    \A i, j \in DOMAIN s : s[i].mtime = s[j].mtime => i = j

-----------------------------------------------------------------------------
(* MapRenderer: projection of game coordinates and render_map.  Numbers    *)
(* are exact fractions num / den.                                          *)

RECURSIVE Gcd(_, _)
Gcd(a, b) == IF b = 0 THEN a ELSE Gcd(b, a % b)

Abs(n) == IF n < 0 THEN -n ELSE n

\* the fraction n / d (d # 0) in lowest terms with a positive denominator
Frac(n, d) ==
    LET g == Gcd(Abs(n), Abs(d))
        s == IF d < 0 THEN -1 ELSE 1
    IN  [num |-> s * (n \div g), den |-> s * (d \div g)]

\* Python's a / b on numbers
Quotient(n, d) ==
    IF d = 0 THEN [kind |-> "raised", exc |-> "ZeroDivisionError"]
    ELSE [kind |-> "value", q |-> Frac(n, d)]

\* range_x / range_y when the extent of the bounds is zero
NominalRange == 1000

\* the offset of the rough estimation used without bounds
RoughOffset == 500

\* the 'bounds' value of a map configuration: absent, or a list of corners
NoBounds == [present |-> FALSE, corners |-> <<>>]

Bounds(corners) == [present |-> TRUE, corners |-> corners]

\* no 'transform' key
NoTransform == <<>>

\* player_position = None
NoPosition == [present |-> FALSE, x |-> 0, y |-> 0, rotation |-> 0]

\* a map configuration dict of maps.json, by the keys the renderer reads
MapConfig(key, projection, bounds, rotation, transform) ==
    [key |-> key, projection |-> projection, bounds |-> bounds,
     coordinateRotation |-> rotation, transform |-> transform]

\* range_x = max_x - min_x if max_x != min_x else 1000
MutExtentNoFallback(lo, hi) == hi - lo

Extent(lo, hi) == IF hi # lo THEN hi - lo ELSE NominalRange

\* perc_y = (max_y - game_y) / range_y
MutPercYNotInverted(game_y, min_y, max_y) ==
    Quotient(game_y - min_y, Extent(min_y, max_y))

PercY(game_y, min_y, max_y) ==
    Quotient(max_y - game_y, Extent(min_y, max_y))

\* perc_x = (game_x - min_x) / range_x
PercX(game_x, min_x, max_x) ==
    Quotient(game_x - min_x, Extent(min_x, max_x))

\* _calculate_svg_coords(game_x, game_y, map_config, width, height).  The
\* rotated coordinates rot_x, rot_y are computed and not used.
CalculateSvgCoordsResult(game_x, game_y, map_config) ==
    LET bounds == map_config.bounds.corners
    IN  IF ~map_config.bounds.present \/ Len(bounds) < 2
        THEN [kind |-> "value", u |-> Frac(game_x + RoughOffset, 1),
              v |-> Frac(RoughOffset - game_y, 1)]
        ELSE LET min_x == IF bounds[1][1] > bounds[2][1] THEN bounds[2][1]
                          ELSE bounds[1][1]
                 max_x == IF bounds[1][1] > bounds[2][1] THEN bounds[1][1]
                          ELSE bounds[2][1]
                 min_y == IF bounds[1][2] > bounds[2][2] THEN bounds[2][2]
                          ELSE bounds[1][2]
                 max_y == IF bounds[1][2] > bounds[2][2] THEN bounds[1][2]
                          ELSE bounds[2][2]
                 perc_x == PercX(game_x, min_x, max_x)
                 perc_y == PercY(game_y, min_y, max_y)
             IN  IF perc_x.kind = "raised" THEN perc_x
                 ELSE IF perc_y.kind = "raised" THEN perc_y
                 ELSE [kind |-> "value",
                       u |-> Frac(perc_x.q.num * 100, perc_x.q.den),
                       v |-> Frac(perc_y.q.num * 100, perc_y.q.den)]

CalculateSvgCoords(game_x, game_y, map_config) ==
    /\ projected = NoProjection
    /\ projected' = [game_x |-> game_x, game_y |-> game_y,
                     map_config |-> map_config]
                       @@ CalculateSvgCoordsResult(game_x, game_y, map_config)
    /\ UNCHANGED <<maps_config, rendered>>
    /\ UNCHANGED <<fsVars, monVars, apiVars, shotVars, objVars,
                   concVars>>

\* _get_map_config(normalized_name): None is NoConfig
NoConfig == MapConfig(None, None, NoBounds, 0, NoTransform)

RECURSIVE FirstInteractive(_)
FirstInteractive(maps) ==
    IF maps = <<>> THEN NoConfig
    ELSE IF Head(maps).projection = "interactive" THEN Head(maps)
    ELSE FirstInteractive(Tail(maps))

RECURSIVE GetMapConfigFrom(_, _)
GetMapConfigFrom(config, normalized_name) ==
    IF config = <<>> THEN NoConfig
    ELSE LET map_entry == Head(config)
         IN  IF map_entry.normalizedName = normalized_name
                /\ map_entry.maps # <<>>
             THEN IF FirstInteractive(map_entry.maps) # NoConfig
                  THEN FirstInteractive(map_entry.maps)
                  ELSE map_entry.maps[1]
             ELSE GetMapConfigFrom(Tail(config), normalized_name)

GetMapConfig(normalized_name) == GetMapConfigFrom(maps_config, normalized_name)

\* f"{map_key.replace('-', ' ').title().replace(' ', '')}.svg", with the
\* special case of streets-of-tarkov, on the keys of the model
SvgFilename(map_key) ==
    CASE map_key = "customs" -> "Customs.svg"
      [] map_key = "streets-of-tarkov" -> "StreetsOfTarkov.svg"
      [] OTHER -> ".svg"

DefaultBounds == <<<<0, 0>>, <<1000, 1000>>>>

DefaultTransform == <<1, 0, 1, 0>>

\* js_markers: the player first, then the quests that have 'x' and 'y'
PlayerMarkers(player_position) ==
    IF ~player_position.present THEN <<>>
    ELSE <<[type |-> "player", lat |-> player_position.y,
            lng |-> player_position.x,
            rotation |-> player_position.rotation]>>

RECURSIVE QuestMarkers(_)
QuestMarkers(quests) ==
    IF quests = <<>> THEN <<>>
    ELSE IF Head(quests).located
         THEN <<[type |-> "quest", lat |-> Head(quests).y,
                 lng |-> Head(quests).x, rotation |-> 0]>>
                 \o QuestMarkers(Tail(quests))
         ELSE QuestMarkers(Tail(quests))

\* render_map(map_name, level, player_position, quests, width, height)
RenderMapResult(map_name, player_position, quests) ==
    LET map_config == GetMapConfig(map_name)
    IN  IF map_config = NoConfig
        THEN [kind |-> "not_found", svg |-> "", bounds |-> <<>>,
              transform |-> <<>>, markers |-> <<>>]
        ELSE [kind |-> "map",
              svg |-> SvgFilename(map_config.key),
              bounds |-> IF map_config.bounds.present
                         THEN map_config.bounds.corners ELSE DefaultBounds,
              transform |-> IF map_config.transform = NoTransform
                            THEN DefaultTransform ELSE map_config.transform,
              markers |-> PlayerMarkers(player_position)
                             \o QuestMarkers(quests)]

RenderMap(map_name, player_position, quests) ==
    /\ rendered = NoRender
    /\ rendered' = [map_name |-> map_name, config |-> GetMapConfig(map_name),
                    player_position |-> player_position, quests |-> quests]
                      @@ RenderMapResult(map_name, player_position, quests)
    /\ UNCHANGED <<maps_config, projected>>
    /\ UNCHANGED <<fsVars, monVars, apiVars, shotVars, objVars,
                   concVars>>

\* inputs of the renderer
Corners == {<<0, 0>>, <<0, 100>>, <<100, 0>>, <<100, 100>>}

BoundsValues ==
    {NoBounds, Bounds(<<>>), Bounds(<<<<0, 0>>>>),
     Bounds(<<<<-200, 300>>, <<200, -100>>>>)}
        \cup {Bounds(<<p, q>>) : p \in Corners, q \in Corners}

Calibrations ==
    {MapConfig("customs", "interactive", b, r, NoTransform) :
        b \in BoundsValues, r \in {0, 180}}

GameCoords == {-50, 25, 50}

CustomsFlat ==
    MapConfig("customs", "2D", Bounds(<<<<0, 0>>, <<100, 100>>>>), 0,
              NoTransform)

CustomsInteractive ==
    MapConfig("customs", "interactive",
              Bounds(<<<<-200, 300>>, <<200, -100>>>>), 180,
              <<2, 10, 2, 20>>)

Streets ==
    MapConfig("streets-of-tarkov", "2D", NoBounds, 0, NoTransform)

MapsConfigs ==
    { <<>>,
      <<[normalizedName |-> "customs",
         maps |-> <<CustomsFlat, CustomsInteractive>>]>>,
      <<[normalizedName |-> "customs", maps |-> <<>>],
        [normalizedName |-> "streets-of-tarkov", maps |-> <<Streets>>]>> }

MapNames == {"customs", "streets-of-tarkov", "woods"}

PlayerPositions ==
    {NoPosition, [present |-> TRUE, x |-> 50, y |-> 25, rotation |-> 45]}

QuestLists ==
    { <<>>,
      <<[located |-> TRUE, x |-> 10, y |-> 20],
        [located |-> FALSE, x |-> 0, y |-> 0]>> }

RenderInit ==
    /\ FsOneFile /\ content[1] = <<>>
    /\ MonInit /\ ApiInit /\ ParserInit
    /\ maps_config \in MapsConfigs
    /\ projected = NoProjection
    /\ rendered = NoRender

RenderNext ==
    \/ \E gx \in GameCoords, gy \in GameCoords, c \in Calibrations :
          CalculateSvgCoords(gx, gy, c)
    \/ \E n \in MapNames, p \in PlayerPositions, q \in QuestLists :
          RenderMap(n, p, q)

RenderSpec == RenderInit /\ [][RenderNext]_vars

\* the bounds of a calibration are two corners with extent on each axis
TwoCorners(c) == c.bounds.present /\ Len(c.bounds.corners) = 2

MinX(c) ==
    LET b == c.bounds.corners IN IF b[1][1] < b[2][1] THEN b[1][1] ELSE b[2][1]

MaxX(c) ==
    LET b == c.bounds.corners IN IF b[1][1] < b[2][1] THEN b[2][1] ELSE b[1][1]

MinY(c) ==
    LET b == c.bounds.corners IN IF b[1][2] < b[2][2] THEN b[1][2] ELSE b[2][2]

MaxY(c) ==
    LET b == c.bounds.corners IN IF b[1][2] < b[2][2] THEN b[2][2] ELSE b[1][2]

-----------------------------------------------------------------------------
(* The tailer on one thread and get_current_map() called from another: the *)
(* iteration of the tail loop in the steps another thread can fall between *)

MutSetMapStepDropsData(data) ==
    [step |-> "setmap", inv |-> Invocation("map_loaded", [id |-> 0], "", "")]

\* a step of _process_line: the assignment of line 126 or one callback call
SetMapStep(data) ==
    [step |-> "setmap", inv |-> Invocation("map_loaded", [id |-> 0], data, "")]

CallStep(inv) == [step |-> "call", inv |-> inv]

\* the steps of `for event_type, pattern in self.PATTERNS.items()` from
\* pattern index k on
RECURSIVE StepsFrom(_, _, _)
StepsFrom(k, line, cbs) ==
    IF k > Len(Kinds) THEN <<>>
    ELSE LET kind  == Kinds[k]
             data  == GroupData(kind, line)
             calls == DispatchKind(kind, data, cbs[kind])
         IN  IF Search(kind, line) = 0 THEN StepsFrom(k + 1, line, cbs)
             ELSE (IF kind = "map_loaded" /\ data # ""
                   THEN <<SetMapStep(data)>> ELSE <<>>)
                  \o [i \in DOMAIN calls |-> CallStep(calls[i])]
                  \o StepsFrom(k + 1, line, cbs)

\* the steps _process_line takes for a raw line
Worklist(raw, cbs) ==
    LET line == Strip(raw)
    IN  IF line = <<>> THEN <<>> ELSE StepsFrom(1, line, cbs)

\* line = f.readline() returned a line; _process_line is entered
BeginLine ==
    /\ pc = "tailing"
    /\ inflight = NoLine
    /\ fpos < Len(content[handle])
    /\ LET raw == ReadLine(content[handle], fpos)
       IN  /\ inflight' = [raw |-> raw, start |-> fpos,
                           todo |-> Worklist(raw, callbacks),
                           mapSet |-> FALSE, first |-> Len(invoked) + 1,
                           began |-> callbacks]
           /\ fpos' = Tell(fpos, raw)
    /\ UNCHANGED <<callbacks, nextId, last_position, current_map, pc, handle,
                   classified, invoked, diag, attach, stopRequested, polls>>
    /\ UNCHANGED <<observed, callers, written, reads>>
    /\ UNCHANGED <<fsVars, apiVars, shotVars, renVars, objVars>>

\* the next step of _process_line: self.current_map = data.lower(), or one
\* callback called inside try/except Exception
StepLine ==
    /\ inflight # NoLine
    /\ inflight.todo # <<>>
    /\ LET s == Head(inflight.todo)
       IN  /\ inflight' = [inflight EXCEPT
                              !.todo = Tail(@),
                              !.mapSet = @ \/ s.step = "setmap"]
           /\ IF s.step = "setmap"
              THEN /\ current_map' = Lower(s.inv.data)
                   /\ UNCHANGED <<invoked, diag>>
              ELSE /\ invoked' = Append(invoked, s.inv)
                   /\ diag' = IF s.inv.outcome = "caught"
                              THEN diag \cup {"callback_error"} ELSE diag
                   /\ UNCHANGED current_map
    /\ UNCHANGED <<callbacks, nextId, last_position, pc, handle, fpos,
                   classified, attach, stopRequested, polls>>
    /\ UNCHANGED <<observed, callers, written, reads>>
    /\ UNCHANGED <<fsVars, apiVars, shotVars, renVars, objVars>>

\* how many of the steps at the head of `todo` are calls of listeners of kind
SameKindAhead(todo, kind) ==
    Cardinality({i \in DOMAIN todo :
        \A j \in 1..i : todo[j].step = "call" /\ todo[j].inv.kind = kind})

\* a callback call whose body registers one more listener for the kind being
\* dispatched (monitor.on_<kind>(f) inside a listener): the append lands in
\* the list `for callback in self.callbacks[event_type]` is iterating, so
\* the loop reaches the new listener after the ones it still had ahead
StepLineRegistering ==
    /\ inflight # NoLine
    /\ inflight.todo # <<>>
    /\ Head(inflight.todo).step = "call"
    /\ nextId <= MaxListeners
    /\ LET s    == Head(inflight.todo)
           rest == Tail(inflight.todo)
           n    == SameKindAhead(rest, s.inv.kind)
           new  == Listener(nextId, FALSE)
       IN  /\ callbacks' = [callbacks EXCEPT ![s.inv.kind] = Append(@, new)]
           /\ nextId' = nextId + 1
           /\ invoked' = Append(invoked, s.inv)
           /\ diag' = IF s.inv.outcome = "caught"
                      THEN diag \cup {"callback_error"} ELSE diag
           /\ inflight' = [inflight EXCEPT !.todo =
                  SubSeq(rest, 1, n)
                  \o <<CallStep(Invocation(s.inv.kind, new, s.inv.data, ""))>>
                  \o SubSeq(rest, n + 1, Len(rest))]
    /\ UNCHANGED <<last_position, current_map, pc, handle, fpos,
                   classified, attach, stopRequested, polls>>
    /\ UNCHANGED <<observed, callers, written, reads>>
    /\ UNCHANGED <<fsVars, apiVars, shotVars, renVars, objVars>>

\* _process_line returned: self.last_position = f.tell()
EndLine ==
    /\ inflight # NoLine
    /\ inflight.todo = <<>>
    /\ classified' = Append(classified,
           [ino |-> handle, start |-> inflight.start, text |-> inflight.raw,
            fresh |-> attach.fresh, attLen |-> attach.len,
            afterRot |-> rot.kind # "none",
            map |-> current_map,
            first |-> inflight.first,
            last |-> Len(invoked),
            done |-> TRUE])
    /\ last_position' = fpos
    /\ inflight' = NoLine
    /\ UNCHANGED <<callbacks, nextId, current_map, pc, handle, fpos, invoked,
                   diag, attach, stopRequested, polls>>
    /\ UNCHANGED <<observed, callers, written, reads>>
    /\ UNCHANGED <<fsVars, apiVars, shotVars, renVars, objVars>>

\* the listeners of map_loaded still to be called for the line in hand
PendingMapLoaded ==
    {i \in DOMAIN inflight.todo :
        inflight.todo[i].step = "call"
        /\ inflight.todo[i].inv.kind = "map_loaded"}

\* get_current_map() on another thread: return self.current_map, no lock
GetCurrentMap ==
    /\ observed' = [called |-> TRUE, map |-> current_map,
                    dispatching |-> inflight.mapSet
                                    /\ PendingMapLoaded # {}]
    /\ UNCHANGED <<inflight, callers, written, reads>>
    /\ UNCHANGED <<fsVars, monVars, apiVars, shotVars, renVars, objVars>>

\* the monitor of the command line, tailing on one thread while another
\* thread asks for the current map
ConcInit == FsOneFile /\ MonInitMain /\ ApiInit /\ ParserInit
            /\ RendererInit

ConcNext ==
    \/ Start
    \/ \E l \in Lines : AppendLine(LogPathFile, l)
    \/ BeginLine
    \/ StepLine
    \/ EndLine
    \/ GetCurrentMap

ConcSpec == ConcInit /\ [][ConcNext]_vars

\* a monitor with the listeners its client registered, its tail iteration
\* taken step by step
DispatchNext ==
    \/ \E k \in RegKinds, r \in BOOLEAN : Register(k, r)
    \/ Start
    \/ \E f \in Files, l \in Lines : AppendLine(f, l)
    \/ BeginLine
    \/ StepLine
    \/ EndLine

DispatchSpec == Init /\ [][DispatchNext]_vars

\* the same with listeners that register listeners while they are called
ReentrantNext == DispatchNext \/ StepLineRegistering

ReentrantSpec == Init /\ [][ReentrantNext]_vars

-----------------------------------------------------------------------------
(* Properties of the tailer, stated on the histories *)

\* the patterns that match a raw line
MatchedKinds(raw) == {k \in KindSet : Search(k, Strip(raw)) # 0}

\* the listeners registered for an event kind
Registered(kind) == {callbacks[kind][i].id : i \in DOMAIN callbacks[kind]}

OtherRegistered(kind) ==
    UNION {Registered(k) : k \in KindSet \ {kind}}

\* the positions in `invoked` of the calls made for classified line c
CallsOf(c) == c.first .. c.last

\* how many times listener id was called for classified line c
TimesCalled(c, id) == Cardinality({j \in CallsOf(c) : invoked[j].id = id})

\* C1: a line that matches only the 'Raid ended' pattern invokes every
\* listener registered for raid_ended exactly once and no listener of any
\* other event kind.
C1_RaidEndedOnly ==
    \A i \in DOMAIN classified :
        LET c == classified[i]
        IN  MatchedKinds(c.text) = {"raid_ended"} =>
              /\ \A id \in Registered("raid_ended") : TimesCalled(c, id) = 1
              /\ \A id \in OtherRegistered("raid_ended") : TimesCalled(c, id) = 0
              /\ \A j \in CallsOf(c) : invoked[j].kind = "raid_ended"

C1_Witness ==
    \E i \in DOMAIN classified :
        /\ MatchedKinds(classified[i].text) = {"raid_ended"}
        /\ Registered("raid_ended") # {}
        /\ OtherRegistered("raid_ended") # {}
        /\ classified[i].last >= classified[i].first

\* the name in a line that is exactly 'Map <name> loaded'
IsMapLoadedLine(raw) == MatchedKinds(raw) = {"map_loaded"}

MapName(raw) == GroupData("map_loaded", Strip(raw))

\* C2 as stated: the line 'Map <name> loaded' sets get_current_map() to the
\* lowercase key and each map_loaded listener is invoked exactly once with
\* that same (lowercase) identifier.
C2_ListenerGetsNormalizedKey ==
    \A i \in DOMAIN classified :
        LET c == classified[i]
        IN  IsMapLoadedLine(c.text) =>
              /\ c.map = Lower(MapName(c.text))
              /\ \A id \in Registered("map_loaded") : TimesCalled(c, id) = 1
              /\ \A j \in CallsOf(c) : invoked[j].data = c.map

\* C2 amended: the line 'Map <name> loaded' sets get_current_map() to
\* lowercase(<name>) and each map_loaded listener is invoked exactly once
\* with <name> as written in the line.
C2_MapLoaded ==
    \A i \in DOMAIN classified :
        LET c == classified[i]
        IN  IsMapLoadedLine(c.text) =>
              /\ c.map = Lower(MapName(c.text))
              /\ \A id \in Registered("map_loaded") : TimesCalled(c, id) = 1
              /\ \A j \in CallsOf(c) :
                    invoked[j].kind = "map_loaded" /\ invoked[j].data = MapName(c.text)

C2_Witness ==
    \E i \in DOMAIN classified :
        /\ IsMapLoadedLine(classified[i].text)
        /\ MapName(classified[i].text) = "Customs"
        /\ classified[i].map = "customs"
        /\ current_map = "customs"
        /\ Cardinality(Registered("map_loaded")) = 2

\* C3 as stated: whatever start_monitoring call attached the tailer, no line
\* classified lay in the file when the tailer attached.
C3_NoReplayOnAnyStart ==
    \A i \in DOMAIN classified : classified[i].start >= classified[i].attLen

\* C3 amended: a start_monitoring call made while last_position is 0
\* attaches at end-of-file, and no line that lay in the file at that time is
\* classified in that run.
C3_NoReplayOnFreshStart ==
    \A i \in DOMAIN classified :
        classified[i].fresh => classified[i].start >= classified[i].attLen

C3_Witness ==
    \E i \in DOMAIN classified :
        /\ classified[i].fresh
        /\ classified[i].attLen > 0
        /\ classified[i].start >= classified[i].attLen

\* C4: when a listener raises during the dispatch of a line, every listener
\* registered for that event kind is still invoked for that line and the
\* loop goes on (the line is consumed, the tailer keeps tailing).
C4_ListenerFaultIsolated ==
    \A i \in DOMAIN classified :
        LET c == classified[i]
        IN  \A j \in CallsOf(c) :
              invoked[j].exc = "Exception" =>
                /\ \A id \in Registered(invoked[j].kind) : TimesCalled(c, id) = 1
                /\ c.done

C4_Witness ==
    \E i \in DOMAIN classified, k \in DOMAIN classified :
        /\ i < k
        /\ classified[i].last > classified[i].first
        /\ invoked[classified[i].first].exc = "Exception"
        /\ invoked[classified[i].last].outcome = "ok"
        /\ classified[k].last >= classified[k].first
        /\ pc = "tailing"

\* C7: a read failure during tailing does not terminate the monitoring
\* operation (start_monitoring does not return because of it).
C7_ReadFailureDoesNotTerminate ==
    ~(pc = "returned" /\ "read_error" \in diag)

\* C5: once the watched file has been replaced while tailing, every line
\* classified afterwards is a line appended to the new file after the
\* replacement (no unread line of the old file, no line the new file
\* already held).
C5_OnlyPostRotationLines ==
    \A i \in DOMAIN classified :
        classified[i].afterRot =>
            /\ classified[i].ino = rot.newIno
            /\ classified[i].start >= rot.preLen

\* C6: while tailing, when the file the tailer has open is not (or no
\* longer) the newest log file, the tailer eventually is attached to the
\* newest one.
C6_FollowsNewestLog ==
    (pc = "tailing" /\ NewestInodes # {} /\ handle \notin NewestInodes)
        ~> (pc = "tailing" /\ handle \in NewestInodes)

C9_StartFailsFast ==
    [][(GetLogFile = {None} /\ Start) =>
          /\ pc' = "raised"
          /\ UNCHANGED <<handle, fpos, last_position, current_map, classified,
                         invoked, diag>>]_vars

C9_Witness ==
    /\ pc = "raised"
    /\ GetLogFile = {None}
    /\ mode = "dir" /\ dirState = "ok"
    /\ handle = 0
    /\ invoked = <<>>

\* C10: a get call made while the entry of its key is fresh
\* (now - fetchedAt < ttl) returns the cached object itself and makes no
\* remote call, whatever the cached value, the empty list included.
C10_FreshEntryIsServed ==
    lastGet.fresh => (lastGet.calls = 0 /\ lastGet.obj = lastGet.cachedObj)

\* C11: a get call made once the entry of its key has expired makes exactly
\* one remote call and, when it succeeds, leaves the entry holding the new
\* value stamped with the time of the call; and a get call that finds such a
\* re-fetched entry still fresh returns it without a remote call.
C11_ExpiredRefetchThenServed ==
    /\ lastGet.expired =>
          /\ lastGet.calls = 1
          /\ (lastGet.ok /\ lastGet.result = "list") =>
                /\ cache[lastGet.key].obj = lastGet.obj
                /\ cache[lastGet.key].len = lastGet.len
                /\ cache[lastGet.key].ts = lastGet.at
    /\ (lastGet.fresh /\ lastGet.refetched) =>
          /\ lastGet.calls = 0
          /\ lastGet.obj = lastGet.cachedObj

\* C12: a get call that finds an expired entry and whose remote call fails
\* returns the value of that entry, not an empty result.
C12_StaleOnFailedRefetch ==
    (lastGet.expired /\ ~lastGet.ok) =>
        /\ lastGet.result = "list"
        /\ lastGet.len = lastGet.cachedLen

\* C13: whatever the remote call gives, every get_* call returns a list: it
\* neither raises nor returns None.
C13_AlwaysReturnsList ==
    lastGet.result = "list"

\* C14: a parse_filename call on a filename whose basename ends with
\* _<X>,<Y>,<Z>_<ROT>deg.png (any case, any directory prefix, anything before
\* the suffix) returns a record whose x, y, z and rotation are the values
\* the four fields denote.
C14_DecodeExactFields ==
    (decoded # NoDecode /\ WellFormed(fname) /\ decoded.stat # "vanishes") =>
        /\ decoded.kind = "record"
        /\ decoded.x = [m |-> fname.x.m, e |-> fname.x.e]
        /\ decoded.y = [m |-> fname.y.m, e |-> fname.y.e]
        /\ decoded.z = [m |-> fname.z.m, e |-> fname.z.e]
        /\ decoded.rotation = fname.rot.m

C14_Witness ==
    /\ decoded # NoDecode
    /\ decoded.kind = "record"
    /\ WellFormed(fname)
    /\ Len(fname.dir) > 2
    /\ Len(fname.stem) > 4
    /\ fname.x.text = <<"0", ".", "5", "0">>
    /\ decoded.x = [m |-> 5, e |-> 1]
    /\ decoded.rotation = 90

\* C15: a parse_filename call on a filename that lacks one of the four
\* numeric groups or the 'deg' unit returns None (NotMatched) and does not
\* raise, whatever the file system does during the call.
C15_LacksPartNotMatched ==
    (decoded # NoDecode /\ LacksPart(fname)) => decoded.kind = "NotMatched"

C15_Witness ==
    /\ decoded # NoDecode
    /\ LacksPart(fname)
    /\ decoded.stat = "vanishes"
    /\ decoded.kind = "NotMatched"

\* C16: get_latest_screenshot on a directory that is listed and not changed
\* during the call returns None (NotFound) when it holds no screenshot, and
\* when the screenshots have pairwise distinct modification times returns
\* the one with the greatest, wherever the listing puts it.
C16_LatestIsNewest ==
    (latest # NoLatest /\ latest.dirOk /\ ~latest.gone) =>
        /\ latest.listing = <<>> => latest.kind = "NotFound"
        /\ (latest.listing # <<>> /\ DistinctMtimes(latest.listing)) =>
              /\ latest.kind = "path"
              /\ \E i \in Newest(latest.listing) :
                    latest.name = latest.listing[i].name
              /\ \A r \in Reorderings(latest.listing) :
                    LatestResult(r, FALSE).name = latest.name

C16_Witness ==
    /\ latest # NoLatest
    /\ latest.kind = "path"
    /\ Len(latest.listing) = 3
    /\ DistinctMtimes(latest.listing)
    /\ Newest(latest.listing) = {2}
    /\ latest.name = latest.listing[2].name

\* C17: when several screenshots share the greatest modification time,
\* get_latest_screenshot returns the same one for every order in which the
\* directory lists them: the first or the last of them in path order.
C17_TieBrokenByPath ==
    (latest # NoLatest /\ latest.kind = "path"
        /\ Cardinality(Newest(latest.listing)) > 1) =>
        /\ \A r \in Reorderings(latest.listing) :
              LatestResult(r, FALSE).name = latest.name
        /\ LET tied == {latest.listing[i].name : i \in Newest(latest.listing)}
           IN  \/ \A n \in tied : PathRank(latest.name) <= PathRank(n)
               \/ \A n \in tied : PathRank(latest.name) >= PathRank(n)

\* C18 as stated: with two corners and extent on both axes,
\* _calculate_svg_coords returns u = (gameX - minX) / (maxX - minX) and
\* v = (maxY - gameY) / (maxY - minY); corners (0,0), (100,100) and the
\* point (50, 25) give u = 1/2, v = 3/4.
C18_ProjectFraction ==
    (projected # NoProjection /\ TwoCorners(projected.map_config)
        /\ MaxX(projected.map_config) # MinX(projected.map_config)
        /\ MaxY(projected.map_config) # MinY(projected.map_config)) =>
        LET c == projected.map_config
        IN  /\ projected.kind = "value"
            /\ projected.u = Frac(projected.game_x - MinX(c), MaxX(c) - MinX(c))
            /\ projected.v = Frac(MaxY(c) - projected.game_y, MaxY(c) - MinY(c))
            /\ (c.bounds.corners = <<<<0, 0>>, <<100, 100>>>>
                  /\ projected.game_x = 50 /\ projected.game_y = 25) =>
                  /\ projected.u = [num |-> 1, den |-> 2]
                  /\ projected.v = [num |-> 3, den |-> 4]

\* C18 amended: with two corners and extent on both axes,
\* _calculate_svg_coords returns the percentages
\* u = 100 * (gameX - minX) / (maxX - minX) and
\* v = 100 * (maxY - gameY) / (maxY - minY); corners (0,0), (100,100) and the
\* point (50, 25) give u = 50, v = 75.
C18_ProjectPercent ==
    (projected # NoProjection /\ TwoCorners(projected.map_config)
        /\ MaxX(projected.map_config) # MinX(projected.map_config)
        /\ MaxY(projected.map_config) # MinY(projected.map_config)) =>
        LET c == projected.map_config
        IN  /\ projected.kind = "value"
            /\ projected.u =
                  Frac(100 * (projected.game_x - MinX(c)), MaxX(c) - MinX(c))
            /\ projected.v =
                  Frac(100 * (MaxY(c) - projected.game_y), MaxY(c) - MinY(c))
            /\ (c.bounds.corners = <<<<0, 0>>, <<100, 100>>>>
                  /\ projected.game_x = 50 /\ projected.game_y = 25) =>
                  /\ projected.u = [num |-> 50, den |-> 1]
                  /\ projected.v = [num |-> 75, den |-> 1]

C18_Witness ==
    /\ projected # NoProjection
    /\ projected.map_config.bounds.corners = <<<<0, 0>>, <<100, 100>>>>
    /\ projected.game_x = 50
    /\ projected.game_y = 25
    /\ projected.u = [num |-> 50, den |-> 1]
    /\ projected.v = [num |-> 75, den |-> 1]

\* C19: with two corners and no extent on an axis, _calculate_svg_coords
\* does not raise: it returns a value computed with the range 1000 on that
\* axis.
C19_DegenerateBoundsFallback ==
    (projected # NoProjection /\ TwoCorners(projected.map_config)) =>
        LET c == projected.map_config
        IN  /\ MaxX(c) = MinX(c) =>
                /\ projected.kind = "value"
                /\ projected.u =
                      Frac(100 * (projected.game_x - MinX(c)), NominalRange)
            /\ MaxY(c) = MinY(c) =>
                /\ projected.kind = "value"
                /\ projected.v =
                      Frac(100 * (MaxY(c) - projected.game_y), NominalRange)

C19_Witness ==
    /\ projected # NoProjection
    /\ TwoCorners(projected.map_config)
    /\ MaxX(projected.map_config) = MinX(projected.map_config)
    /\ MaxY(projected.map_config) # MinY(projected.map_config)
    /\ projected.kind = "value"
    /\ projected.game_x = -50
    /\ projected.u = Frac(100 * (-50 - MinX(projected.map_config)), 1000)

\* C20: render_map for a map name that has no configuration still gives the
\* map render, with the marker of the player and of every located quest.
C20_UnknownMapStillRendered ==
    (rendered # NoRender /\ rendered.config = NoConfig) =>
        /\ rendered.kind = "map"
        /\ rendered.markers = PlayerMarkers(rendered.player_position)
                                 \o QuestMarkers(rendered.quests)

-----------------------------------------------------------------------------
(* C21 *)

\* the (quest, objective, coordinate) triples of every zone position and
\* possible-location position on mapKey, over all the quests of the service
PairsOn(quests, mapKey) ==
    UNION { UNION {
        {<<quests[q].id, quests[q].objectives[o].id,
           quests[q].objectives[o].zones[z].position>> :
            z \in {z \in DOMAIN quests[q].objectives[o].zones :
                     /\ Lower(quests[q].objectives[o].zones[z].map)
                            = Lower(mapKey)
                     /\ quests[q].objectives[o].zones[z].position # 0}}
        \cup
        UNION {
            {<<quests[q].id, quests[q].objectives[o].id,
               quests[q].objectives[o].possibleLocations[l].positions[i]>> :
                i \in DOMAIN
                       quests[q].objectives[o].possibleLocations[l].positions} :
            l \in {l \in DOMAIN quests[q].objectives[o].possibleLocations :
                     Lower(quests[q].objectives[o].possibleLocations[l].map)
                        = Lower(mapKey)}}
        : o \in DOMAIN quests[q].objectives} : q \in DOMAIN quests}

\* C21: a call of get_quest_objectives_with_locations(mapKey) whose fetch
\* did not fail returns exactly one row per (objective, coordinate) pair of
\* all the quests' zone and possible-location positions on mapKey, compared
\* case-insensitively, and no row for another map.
C21_OneRowPerCoordinateOnMap ==
    (objectives # NoObjectives /\ objectives.ok) =>
        LET rows == objectives.rows
        IN  /\ {<<rows[i].quest_id, rows[i].objective_id, rows[i].x>> :
                    i \in DOMAIN rows}
                   = PairsOn(tasks, objectives.map_name)
            /\ Len(rows) = Cardinality(PairsOn(tasks, objectives.map_name))

-----------------------------------------------------------------------------
(* C22, C23 *)

\* the positions in `invoked` of the calls of kind k made for line c
KindCalls(c, k) == {j \in CallsOf(c) : invoked[j].kind = k}

\* C22: for each line read, the listeners of a matched event kind are
\* invoked in the order in which they were registered, every call has
\* completed (returned, or raised and been caught) and the calls of a line
\* all precede the calls of the line read after it.
C22_RegistrationOrderBeforeNextLine ==
    \A i \in DOMAIN classified :
        LET c == classified[i]
        IN  /\ \A k \in MatchedKinds(c.text) :
                  /\ Cardinality(KindCalls(c, k)) = Len(callbacks[k])
                  /\ \A j \in KindCalls(c, k) :
                        invoked[j].id =
                          callbacks[k][Cardinality(
                              {j2 \in KindCalls(c, k) : j2 <= j})].id
                  /\ \A n, m \in DOMAIN callbacks[k] :
                        n < m => callbacks[k][n].id < callbacks[k][m].id
            /\ \A j \in CallsOf(c) : invoked[j].outcome \in {"ok", "caught"}
            /\ c.first = (IF i = 1 THEN 1 ELSE classified[i - 1].last + 1)
            /\ c.last <= Len(invoked)

C22_Witness ==
    \E i \in DOMAIN classified :
        \E k \in MatchedKinds(classified[i].text) :
            /\ Len(callbacks[k]) = 2
            /\ Cardinality(KindCalls(classified[i], k)) = 2
            /\ i > 1

\* C23: for each line read, every pattern that matches the line triggers
\* each listener of its own event kind exactly once, and a pattern that
\* does not match triggers no call of its kind.
C23_EachMatchingPatternOnce ==
    \A i \in DOMAIN classified :
        LET c == classified[i]
        IN  \A k \in KindSet :
              IF k \in MatchedKinds(c.text)
              THEN \A id \in Registered(k) :
                      Cardinality({j \in KindCalls(c, k) :
                                      invoked[j].id = id}) = 1
              ELSE KindCalls(c, k) = {}

C23_Witness ==
    \E i \in DOMAIN classified :
        /\ MatchedKinds(classified[i].text) = {"map_loaded", "raid_ended"}
        /\ Registered("map_loaded") # {}
        /\ Registered("raid_ended") # {}
        /\ \E j \in KindCalls(classified[i], "map_loaded") :
              \E j2 \in KindCalls(classified[i], "raid_ended") : j < j2

-----------------------------------------------------------------------------
(* C26 *)

\* this step read a line and came back from _process_line
LineRead == Len(classified') = Len(classified) + 1
            /\ classified'[Len(classified')].done

\* the line this step read
LineOfStep == classified'[Len(classified')].text

\* C26 as stated: last_position never decreases, and after each line read
\* it equals the last_position before the read plus the length of the line.
C26_CursorAdvancesFromPrevious ==
    [][/\ last_position' >= last_position
       /\ LineRead => last_position' = last_position + Len(LineOfStep)]_vars

\* C26 amended: last_position never decreases, and after each line read it
\* equals the offset of the file object before the read plus the length of
\* the line; that offset is the last_position before the read except while
\* last_position is still 0 after an attach at the end of the file.
C26_CursorAdvancesFromOffset ==
    [][/\ last_position' >= last_position
       /\ LineRead =>
            /\ last_position' = fpos + Len(LineOfStep)
            /\ fpos' = last_position'
            /\ last_position # fpos => last_position = 0]_vars

C26_Witness ==
    /\ classified # <<>>
    /\ LET c == classified[Len(classified)]
       IN  /\ c.fresh /\ c.attLen > 0 /\ c.done
           /\ c.start = c.attLen
           /\ Len(classified) = 1
           /\ last_position = c.start + Len(c.text)

-----------------------------------------------------------------------------
(* C27, C28 *)

\* C27: every position record parse_filename produces has its rotation in
\* 0..359, the rotation field of the filename taken modulo 360.
C27_RotationModulo360 ==
    (decoded # NoDecode /\ decoded.kind = "record") =>
        /\ decoded.rotation \in 0..359
        /\ decoded.rotation = fname.rot.m % 360

\* what a call returned or raised, without the model's note of the file
\* system state it ran in
Returned(d) == [f \in DOMAIN d \ {"stat"} |-> d[f]]

\* C28: two calls of parse_filename with the same filename string give
\* identical results, whatever the state of the file system at each call.
C28_SameNameSameResult ==
    (earlier # NoDecode /\ decoded # NoDecode) =>
        Returned(earlier) = Returned(decoded)

-----------------------------------------------------------------------------
(* C24, C29 *)

\* C24: every value get_current_map() hands to its caller is a map name,
\* also before any 'Map ... loaded' line has been read.
C24_CurrentMapNeverAbsent ==
    observed.called => observed.map # None

\* C29: a call of get_current_map() from another thread never returns the
\* map of a 'Map ... loaded' line while the map_loaded listeners of that
\* line are still being called.
C29_ReaderExcludedDuringDispatch ==
    observed.called => ~observed.dispatching

-----------------------------------------------------------------------------
(* C25 *)

\* C25: once watch_for_updates has been asked to stop it polls no more,
\* calls the callback no more and is no longer running.
C25_WatchLoopStops ==
    [][watch.stopRequested =>
          /\ watch'.polls = watch.polls
          /\ delivered' = delivered
          /\ watch'.pc # "polling"]_vars

-----------------------------------------------------------------------------
(* C30 *)

\* C30: with concurrent callers of get_maps, every (timestamp, value) pair
\* a reader unpacks from the cache is the pair one _set_cache call built:
\* never the timestamp of one refresh with the value of another.
C30_ReaderSeesOneRefresh == reads \subseteq written

C30_Witness ==
    /\ Cardinality(reads) >= 2
    /\ \E t \in Threads : callers[t].pc = "store"
    /\ \E t \in Threads :
          /\ callers[t].pc = "query"
          /\ [ts |-> callers[t].ts, obj |-> callers[t].obj] \in reads

-----------------------------------------------------------------------------
(* C31 *)

\* the lines of a file from offset p on
RECURSIVE LinesFrom(_, _)
LinesFrom(c, p) ==
    IF p >= Len(c) THEN <<>>
    ELSE <<ReadLine(c, p)>> \o LinesFrom(c, p + Len(ReadLine(c, p)))

\* the lines appended to the watched file since the tailer attached
AppendedLines == LinesFrom(content[handle], attach.len)

\* C31: without rotation and read failures, the lines classified are at
\* every moment the first lines appended after attach, each once and in
\* file order, and the n-th appended line is eventually classified.
C31_AppendedLinesClassifiedInOrder ==
    /\ [][pc' = "tailing" =>
            /\ Len(classified') <= Len(AppendedLines')
            /\ \A i \in DOMAIN classified' :
                  /\ classified'[i].text = AppendedLines'[i]
                  /\ classified'[i].done]_vars
    /\ \A n \in 1..MaxAppends :
          (pc = "tailing" /\ Len(AppendedLines) >= n)
              ~> (Len(classified) >= n)

C31_Witness ==
    /\ pc = "tailing"
    /\ attach.len > 0
    /\ Len(AppendedLines) = 2
    /\ Len(classified) = 2
    /\ classified[1].text # classified[2].text

\* C32: every string the tailer classifies is a complete line of the file,
\* ending with the line terminator: a line that reached the file in two
\* appends is classified once, whole, and never as fragments
C32_ClassifiedAreWholeLines ==
    \A i \in DOMAIN classified :
        /\ classified[i].text # <<>>
        /\ classified[i].text[Len(classified[i].text)] = NL

\* C33: when a map_loaded listener is called with identifier d, the current
\* map is already lowercase(d), and a line with a 'Map <d> loaded' match
\* leaves the current map at lowercase(d) whether or not a map_loaded listener
\* is registered and whether or not one raises
C33_MapSetBeforeDispatch ==
    [][/\ \A j \in (Len(invoked) + 1)..Len(invoked') :
            invoked'[j].kind = "map_loaded" =>
               /\ current_map = Lower(invoked'[j].data)
               /\ current_map' = current_map
       /\ \A i \in (Len(classified) + 1)..Len(classified') :
            Search("map_loaded", Strip(classified'[i].text)) # 0 =>
               /\ classified'[i].map = Lower(MapName(classified'[i].text))
               /\ current_map' = classified'[i].map]_vars

C33_Witness ==
    \E i, k \in DOMAIN classified :
        /\ Search("map_loaded", Strip(classified[i].text)) # 0
        /\ MapName(classified[i].text) = "Customs"
        /\ classified[i].map = "customs"
        /\ \E j \in CallsOf(classified[i]) :
              invoked[j].kind = "map_loaded" /\ invoked[j].outcome = "caught"
        /\ k # i
        /\ Search("map_loaded", Strip(classified[k].text)) # 0
        /\ current_map = "customs"

\* the calls made so far for the line in hand to listeners of kind k
CallsInHand(k) ==
    SelectSeq(SubSeq(invoked, inflight.first, Len(invoked)),
              LAMBDA inv : inv.kind = k)

\* C34: when the dispatch of a line ends, the listeners called for each
\* matching kind are exactly the listeners that were registered for the kind
\* when the dispatch began, each once, also when a listener registered
\* further listeners for the kind while the dispatch ran
C34_DispatchCallsListenersAtBegin ==
    [][(inflight # NoLine /\ inflight' = NoLine) =>
          \A k \in MatchedKinds(inflight.raw) :
              /\ Len(CallsInHand(k)) = Len(inflight.began[k])
              /\ \A i \in DOMAIN inflight.began[k] :
                    CallsInHand(k)[i].id = inflight.began[k][i].id]_vars

\* C35: watch_for_updates hands each screenshot (a file name with its
\* modification time) to the callback at most once, however many times it
\* polls, also when the callback raises for the screenshot
C35_DeliveredAtMostOnce ==
    \A i, j \in DOMAIN delivered : delivered[i] = delivered[j] => i = j

\* the screenshot get_latest_screenshot() returns on the directory as it is
IsLatest(n, mt) ==
    LET r == LatestResult(shots, FALSE)
    IN  r.kind = "path" /\ r.name = n /\ r.mtime = mt

\* C36: a screenshot with a valid name that becomes the most recently
\* modified file while watch_for_updates polls, and stays it, is eventually
\* handed to the callback, also when its modification time equals that of the
\* screenshot delivered before it or when that screenshot was deleted
C36_LatestEventuallyDelivered ==
    \A n \in {m \in ShotNames : HasPosition(m)}, mt \in 1..MaxShotMtime :
        <>[](watch.pc = "polling" /\ IsLatest(n, mt))
            => <>(\E i \in DOMAIN delivered :
                    delivered[i] = [filename |-> n, timestamp |-> mt])

\* C37: whatever calls came before, get_quests(m) with a map filter m
\* returns only quests whose map has the normalized name m, compared without
\* regard to case: never a list cached for the call without filter or for
\* another filter
C37_FilteredCallReturnsOnlyItsMap ==
    (answer.called /\ answer.map_name # None) =>
        \A i \in DOMAIN answer.result :
            /\ answer.result[i].map # None
            /\ Lower(answer.result[i].map) = Lower(answer.map_name)
====
